---- MODULE Spec2Model ----
(***************************************************************************)
(* A model of the mediasoup worker's media routing core: RTC::Consumer     *)
(* (worker/src/RTC/Consumer.cpp) with the RtpStreamSend it owns, the       *)
(* fan-out of one producer packet to the subscribed consumers by the Room, *)
(* and the request handlers of the Consumer, the Room and the Loop.        *)
(*                                                                         *)
(* Every method of the Consumer is an operator from a call state           *)
(*   st = [c |-> the Consumer's fields, o |-> what the call emitted,       *)
(*         pkt |-> the borrowed packet object, aborted |-> worker aborted, *)
(*         disabled |-> Disable() ran]                                     *)
(* to the call state when the method returns.  An action applies one       *)
(* public method to one Consumer.                                          *)
(***************************************************************************)
EXTENDS Integers, Sequences, FiniteSets, TLC

VARIABLES
    consumers,   \* consumerId -> the fields of that Consumer
    out,         \* what the last operation emitted (transport, notifier, listeners)
    lastSent,    \* consumerId -> header of the last packet handed to its
                 \* transport, the header the producer gave it, and whether a
                 \* sync step was taken since
    lastNotified,\* consumerId -> data of its last "effectiveprofilechange"
    packets,     \* number of producer packets delivered so far
    aborted,     \* the worker process has aborted (MS_ABORT / crash)
    room,        \* the Room: its fan-out table and the objects it has seen die
    clock,       \* DepLibUV::GetTime(), in milliseconds
    lastRtcp,    \* consumerId -> when it appended RTCP the last two times,
                 \* and whether it was disabled after each
    rooms,       \* Loop::rooms: the roomIds of the Rooms that exist; the Room
                 \* of roomId 1 is room
    loop,        \* the Loop: its closed flag, how often its signals handler
                 \* and its channel were closed, the Rooms it closed, and the
                 \* signals and channel closures it has handled
    vp8,         \* a VP8 EncodingContext, and the last packet processed with
                 \* it: its payload descriptor, the context before, the result
    sender       \* an RtpSender of a Peer: its parameters, the payload types
                 \* it supports, whether it is available, and its Send calls

vars == <<consumers, out, lastSent, lastNotified, packets, aborted, room,
          clock, lastRtcp, rooms, loop, vp8, sender>>

----------------------------------------------------------------------------
(* Bounds of the model.                                                    *)

\* Producer packets delivered in one behaviour of Spec, of SpecProfile and of
\* SpecRoom.
MaxPackets == 2
MaxProfilePackets == 1
MaxRoomPackets == 2

\* Consumer-side objects the Room creates, and producer packets delivered, in
\* one behaviour of SpecFanout.
MaxRtpSenders == 3
MaxFanoutPackets == 2

\* Producer packets delivered in one behaviour of SpecNack, and the count of
\* retransmitted packets from which on no further NACK packet is delivered.
MaxNackPackets == 2
MaxRetransmitted == 1

\* Producer packets delivered in one behaviour of SpecRing: more than the
\* 750 the ring of a stream with NACK holds.
MaxRingPackets == 752

\* The time at which a behaviour of SpecRtcp ends, in milliseconds.
MaxTime == 9000

\* Signals and channel closures handled in one behaviour of SpecLoop.
MaxTriggers == 3

\* Producer packets delivered in one behaviour of SpecDelta.
MaxDeltaPackets == 3

\* VP8 packets processed in one behaviour of SpecVp8.
MaxVp8Packets == 2

\* VP8 pictures processed in one behaviour of SpecVp8Wrap.
MaxWrapPictures == 3

\* VP8 payloads processed in one behaviour of SpecVp8Bytes.
MaxBytePayloads == 2

\* Calls of RtpSender::Send in one behaviour of SpecSend.
MaxSends == 3
MaxMediaCodecs == 2

\* The retransmission container has 18 elements: up to 17 packets and the
\* nullptr after them.
MaxRequestedPackets == 17

----------------------------------------------------------------------------
(* Fixed-width integers.                                                   *)

W16 == 2 ^ 16

Add16(a, b) == (a + b) % W16
Sub16(a, b) == (a - b + W16) % W16

\* A uint32_t is kept as <<high 16 bits, low 16 bits>>.
U32(hi, lo) == <<hi, lo>>
U32Zero == U32(0, 0)

Add32(a, b) ==
    LET lo == a[2] + b[2]
    IN  U32((a[1] + b[1] + (lo \div W16)) % W16, lo % W16)

Sub32(a, b) ==
    LET lo     == a[2] - b[2]
        borrow == IF lo < 0 THEN 1 ELSE 0
    IN  U32((a[1] - b[1] - borrow + W16) % W16, (lo + W16) % W16)

\* a > b on uint32_t.
Gt32(a, b) == a[1] > b[1] \/ (a[1] = b[1] /\ a[2] > b[2])

\* uint64_t values are a 32-bit high word and the two 16-bit halves of the low
\* word; static_cast<uint32_t> keeps the low word.
U64(top, hi, lo) == <<top, hi, lo>>
Uint32(t) == U32(t[2], t[3])

\* a + d for a uint64_t a and 0 <= d < 2^16.
Add64(a, d) ==
    LET lo == a[3] + d
        hi == a[2] + lo \div W16
    IN  U64(a[1] + hi \div W16, hi % W16, lo % W16)

\* a - b for uint64_t values: the two low halves are exact; the high word is
\* left unreduced, so that it is not 0 when the difference wrapped.
Sub64(a, b) ==
    LET lo == a[3] - b[3]
        hi == a[2] - b[2] - (IF lo < 0 THEN 1 ELSE 0)
    IN  U64(a[1] - b[1] - (IF hi < 0 THEN 1 ELSE 0), hi % W16, lo % W16)

----------------------------------------------------------------------------
(* RtpEncodingParameters::Profile, an ordered enum.                        *)

NONE    == 0
DEFAULT == 1
LOW     == 2
MEDIUM  == 3
HIGH    == 4

Profiles == {NONE, DEFAULT, LOW, MEDIUM, HIGH}

profile2String(p) ==
    CASE p = NONE    -> "none"
      [] p = DEFAULT -> "default"
      [] p = LOW     -> "low"
      [] p = MEDIUM  -> "medium"
      [] p = HIGH    -> "high"

----------------------------------------------------------------------------
(* Values.                                                                 *)

NoTransport == 0

NoRtpParameters == [codecs |-> <<>>, encodings |-> <<>>, cname |-> ""]

\* this->rtpStream == nullptr
NoStream ==
    [present |-> FALSE, ssrc |-> 0, payloadType |-> 0, useNack |-> FALSE,
     usePli |-> FALSE, capacity |-> 0, buffer |-> <<>>,
     hasRtx |-> FALSE, rtxPayloadType |-> 0, rtxSsrc |-> 0, rtxSeq |-> 0]

\* No packet was handed to the transport yet.  recvSeq and recvTs are the
\* sequence number and timestamp the packet had when the producer sent it,
\* synced whether a sync step was taken after the packet and dropped whether
\* a packet of the producer was not handed to the transport after it;
\* chained whether a packet was handed to the transport before it with no
\* sync step between the two, and gap whether a packet of the producer was
\* not handed to the transport between the two.
NoHeader ==
    [valid |-> FALSE, ssrc |-> 0, seq |-> 0, ts |-> U32Zero,
     recvSeq |-> 0, recvTs |-> U32Zero, synced |-> FALSE, dropped |-> FALSE,
     chained |-> FALSE, gap |-> FALSE]

\* The state of a call that operates on Consumer c carrying packet pkt.
CallState(c, o, pkt) ==
    [c |-> c, o |-> o, pkt |-> pkt, aborted |-> FALSE, disabled |-> FALSE]

NoPacket == [ssrc |-> 0, seq |-> 0, ts |-> U32Zero, pt |-> 0, payload |-> <<>>]

\* No request: the call is not the handling of one.
NoRequest == [handler |-> "", methodId |-> ""]

\* Nothing emitted yet by a call on Consumer id.  profile, now and receiver
\* are the arguments of a packet delivery; closed are the calls that told a
\* listener of a closure, each with the number of notifications emitted
\* before it, and peersClosed the calls of Peer::Close(), likewise; nack
\* are the items of a NACK packet received; rtcp is what was
\* appended to the compound packet; request is the request handled and
\* responses the answers to it.
NoOut(id) ==
    [id |-> id, sent |-> <<>>, events |-> <<>>,
     fullFrameRequests |-> <<>>, error |-> "", entry |-> <<>>, exit |-> <<>>,
     recalculated |-> FALSE, profile |-> NONE, now |-> U64(0, 0, 0),
     closed |-> <<>>, receiver |-> 0, nack |-> <<>>, rtcp |-> <<>>,
     responses |-> <<>>, request |-> NoRequest, peersClosed |-> <<>>]

----------------------------------------------------------------------------
(* Collaborators of the Consumer.                                          *)

\* Channel::Notifier::Emit(targetId, event, data)
Emit(st, event, data) ==
    [st EXCEPT !.o.events =
        Append(@, [id |-> st.o.id, event |-> event, data |-> data])]

\* Channel::Request::Accept() and Reject(reason), Reject(code, reason).  after
\* is the number of notifications the call had emitted when it answered.
Accept(st) ==
    [st EXCEPT !.o.responses =
        Append(@, [accepted |-> TRUE, reason |-> "",
                   after |-> Len(st.o.events)])]
Reject(st, reason) ==
    [st EXCEPT !.o.responses =
        Append(@, [accepted |-> FALSE, reason |-> reason,
                   after |-> Len(st.o.events)])]

\* MS_THROW_ERROR: the call ends here with an exception.
Throw(st, reason) == [st EXCEPT !.o.error = reason]

\* MS_ABORT, or a crash of the process.
Abort(st) == [st EXCEPT !.aborted = TRUE]

\* RTC::Transport::SendRtpPacket(packet): the packet as it is on the wire.
TransportSendRtpPacket(st) ==
    [st EXCEPT !.o.sent = Append(@, [id |-> st.o.id, pkt |-> st.pkt])]

\* new RTC::RtpStreamSend(params, bufferSize)
RtpStreamSend(params, bufferSize) ==
    [present |-> TRUE, ssrc |-> params.ssrc, payloadType |-> params.payloadType,
     useNack |-> params.useNack, usePli |-> params.usePli,
     capacity |-> bufferSize, buffer |-> <<>>,
     hasRtx |-> FALSE, rtxPayloadType |-> 0, rtxSsrc |-> 0, rtxSeq |-> 0]

\* RtpStreamSend::SetRtx(payloadType, ssrc)
SetRtx(stream, payloadType, ssrc) ==
    [stream EXCEPT !.hasRtx = TRUE, !.rtxPayloadType = payloadType, !.rtxSsrc = ssrc]

\* RtpStreamSend::ClearRetransmissionBuffer()
ClearRetransmissionBuffer(stream) == [stream EXCEPT !.buffer = <<>>]

\* The last n elements of s.
LastN(s, n) ==
    IF Len(s) <= n THEN s ELSE SubSeq(s, Len(s) - n + 1, Len(s))

\* RtpStreamSend::ReceivePacket(packet): whether the stream accepts the packet
\* is its own decision (accepted); an accepted packet is stored in the ring,
\* whose oldest entries are overwritten.
ReceivePacket(stream, packet, accepted) ==
    IF accepted /\ stream.capacity > 0
    THEN [stream EXCEPT !.buffer = LastN(Append(@, packet), stream.capacity)]
    ELSE stream

\* RtpParameters::GetCodecForEncoding(encoding): the codecs whose payload type
\* is the encoding's.
CodecsForEncoding(rtpParameters, encoding) ==
    {i \in 1..Len(rtpParameters.codecs) :
        rtpParameters.codecs[i].payloadType = encoding.codecPayloadType}

\* RtpParameters::GetRtxCodecForEncoding(encoding): the RTX codecs.
RtxCodecsForEncoding(rtpParameters, encoding) ==
    {i \in 1..Len(rtpParameters.codecs) : rtpParameters.codecs[i].rtx}

Min(S) == CHOOSE x \in S : \A y \in S : x <= y
Max(S) == CHOOSE x \in S : \A y \in S : x >= y

----------------------------------------------------------------------------
(* RTC::Consumer.                                                          *)

\* RTC::RTCP::MaxAudioIntervalMs and MaxVideoIntervalMs
MaxAudioIntervalMs == 5000
MaxVideoIntervalMs == 1000

\* Consumer::Consumer(notifier, consumerId, kind, sourceProducerId)
Consumer(kind, seqNum, syncRequired) ==
    [kind |-> kind,
     listeners |-> {1},
     transport |-> NoTransport,
     rtpParameters |-> NoRtpParameters,
     rtpStream |-> NoStream,
     supportedCodecPayloadTypes |-> {},
     paused |-> FALSE,
     sourcePaused |-> FALSE,
     profiles |-> {NONE},
     preferredProfile |-> NONE,
     effectiveProfile |-> NONE,
     syncRequired |-> syncRequired,
     seqNum |-> seqNum,
     rtpTimestamp |-> U32Zero,
     lastRecvSeqNum |-> 0,
     lastRecvRtpTimestamp |-> U32Zero,
     transmittedCounter |-> 0,
     retransmittedCounter |-> 0,
     lastRtcpSentTime |-> U64(0, 0, 0),
     maxRtcpInterval |-> IF kind = "audio" THEN MaxAudioIntervalMs
                                           ELSE MaxVideoIntervalMs]

IsEnabled(c) == c.transport # NoTransport

IsPaused(c) == c.paused \/ c.sourcePaused

\* Disable that leaves supportedCodecPayloadTypes as it is.
Disable_KeepsPayloadTypes(st) ==
    [st EXCEPT !.c.transport = NoTransport,
               !.c.rtpStream = NoStream,
               !.c.lastRtcpSentTime = U64(0, 0, 0),
               !.c.transmittedCounter = 0,
               !.c.retransmittedCounter = 0,
               !.disabled = TRUE]

\* Consumer::Disable()
Disable(st) ==
    [st EXCEPT !.c.transport = NoTransport,
               !.c.supportedCodecPayloadTypes = {},
               !.c.rtpStream = NoStream,
               !.c.lastRtcpSentTime = U64(0, 0, 0),
               !.c.transmittedCounter = 0,
               !.c.retransmittedCounter = 0,
               !.disabled = TRUE]

\* Consumer::FillSupportedCodecPayloadTypes()
FillSupportedCodecPayloadTypes(st) ==
    [st EXCEPT !.c.supportedCodecPayloadTypes =
        @ \cup {st.c.rtpParameters.codecs[i].payloadType :
                    i \in 1..Len(st.c.rtpParameters.codecs)}]

\* Consumer::CreateRtpStream(encoding)
CreateRtpStream(st, encoding) ==
    LET found == CodecsForEncoding(st.c.rtpParameters, encoding)
    IN  IF found = {} THEN Abort(st)
        ELSE
        LET codec   == st.c.rtpParameters.codecs[Min(found)]
            useNack == \E fb \in codec.rtcpFeedback : fb[1] = "nack"
            usePli  == \E fb \in codec.rtcpFeedback : fb[1] = "nack" /\ fb[2] = "pli"
            params  == [ssrc |-> encoding.ssrc, payloadType |-> codec.payloadType,
                        useNack |-> useNack, usePli |-> usePli]
            stream  == IF useNack THEN RtpStreamSend(params, 750)
                                  ELSE RtpStreamSend(params, 0)
            rtx     == RtxCodecsForEncoding(st.c.rtpParameters, encoding)
        IN  IF encoding.hasRtx /\ encoding.rtxSsrc # 0
            THEN IF rtx = {} THEN Abort([st EXCEPT !.c.rtpStream = stream])
                 ELSE [st EXCEPT !.c.rtpStream =
                          SetRtx(stream,
                                 st.c.rtpParameters.codecs[Min(rtx)].payloadType,
                                 encoding.rtxSsrc)]
            ELSE [st EXCEPT !.c.rtpStream = stream]

\* Enable that disables an Enabled Consumer before it validates the parameters.
Enable_DisablesBeforeValidation(st, transport, rtpParameters) ==
    LET s1 == IF IsEnabled(st.c) THEN Disable(st) ELSE st
    IN  IF rtpParameters.encodings = <<>>
        THEN Throw(s1, "invalid empty rtpParameters.encodings")
        ELSE IF rtpParameters.encodings[1].ssrc = 0
        THEN Throw(s1, "missing rtpParameters.encodings[0].ssrc")
        ELSE
        LET s2 == [s1 EXCEPT !.c.transport = transport,
                             !.c.rtpParameters = rtpParameters]
            s3 == FillSupportedCodecPayloadTypes(s2)
        IN  CreateRtpStream(s3, s3.c.rtpParameters.encodings[1])

\* Enable that binds the transport before it validates the parameters.
Enable_BindsBeforeValidation(st, transport, rtpParameters) ==
    LET s0 == [st EXCEPT !.c.transport = transport]
    IN  IF rtpParameters.encodings = <<>>
        THEN Throw(s0, "invalid empty rtpParameters.encodings")
        ELSE IF rtpParameters.encodings[1].ssrc = 0
        THEN Throw(s0, "missing rtpParameters.encodings[0].ssrc")
        ELSE
        LET s1 == IF IsEnabled(st.c) THEN Disable(st) ELSE st
            s2 == [s1 EXCEPT !.c.transport = transport,
                             !.c.rtpParameters = rtpParameters]
            s3 == FillSupportedCodecPayloadTypes(s2)
        IN  CreateRtpStream(s3, s3.c.rtpParameters.encodings[1])

\* Enable that does not disable an Enabled Consumer first.
Enable_WithoutDisable(st, transport, rtpParameters) ==
    IF rtpParameters.encodings = <<>>
    THEN Throw(st, "invalid empty rtpParameters.encodings")
    ELSE IF rtpParameters.encodings[1].ssrc = 0
    THEN Throw(st, "missing rtpParameters.encodings[0].ssrc")
    ELSE
    LET s2 == [st EXCEPT !.c.transport = transport,
                         !.c.rtpParameters = rtpParameters]
        s3 == FillSupportedCodecPayloadTypes(s2)
    IN  CreateRtpStream(s3, s3.c.rtpParameters.encodings[1])

\* Consumer::Enable(transport, rtpParameters)
Enable(st, transport, rtpParameters) ==
    IF rtpParameters.encodings = <<>>
    THEN Throw(st, "invalid empty rtpParameters.encodings")
    ELSE IF rtpParameters.encodings[1].ssrc = 0
    THEN Throw(st, "missing rtpParameters.encodings[0].ssrc")
    ELSE
    LET s1 == IF IsEnabled(st.c) THEN Disable(st) ELSE st
        s2 == [s1 EXCEPT !.c.transport = transport,
                         !.c.rtpParameters = rtpParameters]
        s3 == FillSupportedCodecPayloadTypes(s2)
    IN  CreateRtpStream(s3, s3.c.rtpParameters.encodings[1])

\* Consumer::RequestFullFrame()
RequestFullFrame(st) ==
    IF ~IsEnabled(st.c) THEN st
    ELSE IF st.c.kind = "audio" \/ IsPaused(st.c) THEN st
    ELSE [st EXCEPT !.o.fullFrameRequests =
            @ \o [i \in 1..Cardinality(st.c.listeners) |-> st.o.id]]

\* this->rtpStream->...: a call through the rtpStream pointer, which leaves the
\* stream as newStream; through a null pointer the process crashes.
OnRtpStream(st, newStream) ==
    IF ~st.c.rtpStream.present THEN Abort(st)
    ELSE [st EXCEPT !.c.rtpStream = newStream]

\* Consumer::Pause()
Pause(st) ==
    IF st.c.paused THEN st
    ELSE
    LET s1 == [st EXCEPT !.c.paused = TRUE]
    IN  IF IsEnabled(s1.c) /\ ~s1.c.sourcePaused
        THEN OnRtpStream(s1, ClearRetransmissionBuffer(s1.c.rtpStream))
        ELSE s1

\* Resume that requests no full frame.
Resume_NoFullFrame(st) ==
    IF ~st.c.paused THEN st
    ELSE [st EXCEPT !.c.paused = FALSE]

\* Consumer::Resume()
Resume(st) ==
    IF ~st.c.paused THEN st
    ELSE
    LET s1 == [st EXCEPT !.c.paused = FALSE]
    IN  IF IsEnabled(s1.c) /\ ~s1.c.sourcePaused
        THEN RequestFullFrame(s1)
        ELSE s1

\* SourcePause that leaves the retransmission buffer as it is.
SourcePause_KeepsBuffer(st) ==
    IF st.c.sourcePaused THEN st
    ELSE Emit([st EXCEPT !.c.sourcePaused = TRUE], "sourcepaused", "")

\* Consumer::SourcePause()
SourcePause(st) ==
    IF st.c.sourcePaused THEN st
    ELSE
    LET s1 == Emit([st EXCEPT !.c.sourcePaused = TRUE], "sourcepaused", "")
    IN  IF IsEnabled(s1.c) /\ ~s1.c.paused
        THEN OnRtpStream(s1, ClearRetransmissionBuffer(s1.c.rtpStream))
        ELSE s1

\* SourceResume without the test of the flag.
SourceResume_NotIdempotent(st) ==
    LET s1 == Emit([st EXCEPT !.c.sourcePaused = FALSE], "sourceresumed", "")
    IN  IF IsEnabled(s1.c) /\ ~s1.c.paused
        THEN RequestFullFrame(s1)
        ELSE s1

\* Consumer::SourceResume()
SourceResume(st) ==
    IF ~st.c.sourcePaused THEN st
    ELSE
    LET s1 == Emit([st EXCEPT !.c.sourcePaused = FALSE], "sourceresumed", "")
    IN  IF IsEnabled(s1.c) /\ ~s1.c.paused
        THEN RequestFullFrame(s1)
        ELSE s1

\* Consumer::SourceRtpParametersUpdated()
SourceRtpParametersUpdated(st) ==
    IF ~IsEnabled(st.c) THEN st
    ELSE OnRtpStream([st EXCEPT !.c.syncRequired = TRUE],
                     ClearRetransmissionBuffer(st.c.rtpStream))

\* The profile RecalculateEffectiveProfile reads through its iterator.
NewProfile(c, ub) ==
    LET atOrAbove == {p \in c.profiles : p >= c.preferredProfile}
    IN  IF c.preferredProfile = NONE
        THEN IF c.profiles = {} THEN ub ELSE Max(c.profiles)
        ELSE IF atOrAbove = {} THEN ub ELSE Min(atOrAbove)

\* RecalculateEffectiveProfile that leaves the retransmission buffer alone.
RecalculateEffectiveProfile_KeepsBuffer(st, ub) ==
    LET newProfile == NewProfile(st.c, ub)
    IN  IF newProfile = st.c.effectiveProfile
        THEN [st EXCEPT !.o.recalculated = TRUE]
        ELSE
        LET s1 == Emit([st EXCEPT !.c.effectiveProfile = newProfile],
                       "effectiveprofilechange", profile2String(newProfile))
            s2 == IF IsEnabled(s1.c) /\ ~IsPaused(s1.c)
                  THEN RequestFullFrame(s1)
                  ELSE s1
        IN  [s2 EXCEPT !.c.syncRequired = TRUE, !.o.recalculated = TRUE]

\* RecalculateEffectiveProfile that notifies whether or not the profile changed.
RecalculateEffectiveProfile_AlwaysNotifies(st, ub) ==
    LET newProfile == NewProfile(st.c, ub)
        s1 == Emit([st EXCEPT !.c.effectiveProfile = newProfile],
                   "effectiveprofilechange", profile2String(newProfile))
    IN  IF newProfile = st.c.effectiveProfile
        THEN [s1 EXCEPT !.o.recalculated = TRUE]
        ELSE
        LET s2 == IF IsEnabled(s1.c) /\ ~IsPaused(s1.c)
                  THEN RequestFullFrame(
                          OnRtpStream(s1, ClearRetransmissionBuffer(s1.c.rtpStream)))
                  ELSE s1
        IN  [s2 EXCEPT !.c.syncRequired = TRUE, !.o.recalculated = TRUE]

\* Consumer::RecalculateEffectiveProfile().  The iterator the code dereferences
\* is crbegin() of the set, or lower_bound(preferredProfile).  Dereferencing
\* it when it is rend()/end() is undefined: the value read is then any
\* profile value (ub).
RecalculateEffectiveProfile(st, ub) ==
    LET newProfile == NewProfile(st.c, ub)
    IN  IF newProfile = st.c.effectiveProfile
        THEN [st EXCEPT !.o.recalculated = TRUE]
        ELSE
        LET s1 == Emit([st EXCEPT !.c.effectiveProfile = newProfile],
                       "effectiveprofilechange", profile2String(newProfile))
            s2 == IF IsEnabled(s1.c) /\ ~IsPaused(s1.c)
                  THEN RequestFullFrame(
                          OnRtpStream(s1, ClearRetransmissionBuffer(s1.c.rtpStream)))
                  ELSE s1
        IN  [s2 EXCEPT !.c.syncRequired = TRUE, !.o.recalculated = TRUE]

\* Consumer::AddProfile(profile)
AddProfile(st, profile, ub) ==
    LET kept == IF st.c.profiles = {NONE} THEN {} ELSE st.c.profiles
    IN  RecalculateEffectiveProfile(
            [st EXCEPT !.c.profiles = kept \cup {profile}], ub)

\* Consumer::RemoveProfile(profile)
RemoveProfile(st, profile, ub) ==
    RecalculateEffectiveProfile([st EXCEPT !.c.profiles = @ \ {profile}], ub)

\* Consumer::SetPreferredProfile(profile)
SetPreferredProfile(st, profile, ub) ==
    IF st.c.preferredProfile = profile THEN st
    ELSE RecalculateEffectiveProfile([st EXCEPT !.c.preferredProfile = profile], ub)

\* The step that treats a packet after a sync request like any other.
UpdateSeqNumAndTimestamp_NoSync(st, time) ==
    LET packet == st.pkt
        s1 == [st EXCEPT !.c.seqNum =
                             Add16(@, Sub16(packet.seq, st.c.lastRecvSeqNum)),
                         !.c.rtpTimestamp =
                             Add32(@, Sub32(packet.ts, st.c.lastRecvRtpTimestamp)),
                         !.c.syncRequired = FALSE]
    IN  [s1 EXCEPT !.c.lastRecvSeqNum = packet.seq,
                   !.c.lastRecvRtpTimestamp = packet.ts]

\* Consumer::SendRtpPacket, the sequence number and timestamp of the packet
\* to emit.  time is what DepLibUV::GetTime() returns.
UpdateSeqNumAndTimestamp(st, time) ==
    LET packet == st.pkt
        now    == Uint32(time)
        s1 == IF st.c.syncRequired
              THEN [st EXCEPT !.c.seqNum = Add16(@, 1),
                              !.c.rtpTimestamp = IF Gt32(now, @) THEN now ELSE @,
                              !.c.syncRequired = FALSE]
              ELSE [st EXCEPT !.c.seqNum =
                                  Add16(@, Sub16(packet.seq, st.c.lastRecvSeqNum)),
                              !.c.rtpTimestamp =
                                  Add32(@, Sub32(packet.ts, st.c.lastRecvRtpTimestamp))]
    IN  [s1 EXCEPT !.c.lastRecvSeqNum = packet.seq,
                   !.c.lastRecvRtpTimestamp = packet.ts]

\* RestorePacket that leaves the rewritten sequence number in the packet.
RestorePacket_KeepsSeq(st, ssrc) ==
    [st EXCEPT !.pkt.ssrc = ssrc,
               !.pkt.ts = st.c.lastRecvRtpTimestamp]

\* Consumer::SendRtpPacket, the end: the header of the borrowed packet is
\* put back (ssrc is the local that saved the real SSRC).
RestorePacket(st, ssrc) ==
    [st EXCEPT !.pkt.ssrc = ssrc,
               !.pkt.seq = st.c.lastRecvSeqNum,
               !.pkt.ts = st.c.lastRecvRtpTimestamp]

\* ForwardRtpPacket that does not hand the packet to the stream.
ForwardRtpPacket_NotStored(st, now, accepted) ==
    LET s2   == UpdateSeqNumAndTimestamp(st, now)
        ssrc == s2.pkt.ssrc
        s3   == [s2 EXCEPT !.pkt.ssrc = s2.c.rtpParameters.encodings[1].ssrc,
                           !.pkt.seq = s2.c.seqNum,
                           !.pkt.ts = s2.c.rtpTimestamp]
        s4   == IF accepted
                THEN [TransportSendRtpPacket(s3) EXCEPT !.c.transmittedCounter = @ + 1]
                ELSE s3
    IN  RestorePacket(s4, ssrc)

\* ForwardRtpPacket that transmits and counts a packet the stream rejected.
ForwardRtpPacket_SendsRejected(st, now, accepted) ==
    LET s2   == UpdateSeqNumAndTimestamp(st, now)
        ssrc == s2.pkt.ssrc
        s3   == [s2 EXCEPT !.pkt.ssrc = s2.c.rtpParameters.encodings[1].ssrc,
                           !.pkt.seq = s2.c.seqNum,
                           !.pkt.ts = s2.c.rtpTimestamp]
        t1   == OnRtpStream(s3, ReceivePacket(s3.c.rtpStream, s3.pkt, accepted))
        s4   == IF ~t1.aborted
                THEN [TransportSendRtpPacket(t1) EXCEPT !.c.transmittedCounter = @ + 1]
                ELSE t1
    IN  RestorePacket(s4, ssrc)

\* Consumer::SendRtpPacket, after the filters: rewrite, feed the stream,
\* transmit, restore.  accepted is the answer of rtpStream->ReceivePacket.
ForwardRtpPacket(st, now, accepted) ==
    LET s2   == UpdateSeqNumAndTimestamp(st, now)
        ssrc == s2.pkt.ssrc
        s3   == [s2 EXCEPT !.pkt.ssrc = s2.c.rtpParameters.encodings[1].ssrc,
                           !.pkt.seq = s2.c.seqNum,
                           !.pkt.ts = s2.c.rtpTimestamp]
        t1   == OnRtpStream(s3, ReceivePacket(s3.c.rtpStream, s3.pkt, accepted))
        s4   == IF accepted /\ ~t1.aborted
                THEN [TransportSendRtpPacket(t1) EXCEPT !.c.transmittedCounter = @ + 1]
                ELSE t1
    IN  RestorePacket(s4, ssrc)

\* SendRtpPacket looking at the local pause flag only.
SendRtpPacket_IgnoresSourcePaused(st, profile, now, accepted) ==
    IF ~IsEnabled(st.c) THEN st
    ELSE IF st.c.paused THEN st
    ELSE IF st.pkt.pt \notin st.c.supportedCodecPayloadTypes THEN st
    ELSE IF profile # st.c.effectiveProfile THEN st
    ELSE ForwardRtpPacket(st, now, accepted)

\* SendRtpPacket without the profile filter.
SendRtpPacket_AnyProfile(st, profile, now, accepted) ==
    IF ~IsEnabled(st.c) THEN st
    ELSE IF IsPaused(st.c) THEN st
    ELSE IF st.pkt.pt \notin st.c.supportedCodecPayloadTypes THEN st
    ELSE ForwardRtpPacket(st, now, accepted)

\* SendRtpPacket that saves the sequence number and the timestamp of a packet
\* it drops.
SendRtpPacket_SavesDropped(st, profile, now, accepted) ==
    LET saved == [st EXCEPT !.c.lastRecvSeqNum = st.pkt.seq,
                            !.c.lastRecvRtpTimestamp = st.pkt.ts]
    IN  IF ~IsEnabled(st.c) THEN st
        ELSE IF IsPaused(st.c) THEN saved
        ELSE IF st.pkt.pt \notin st.c.supportedCodecPayloadTypes THEN saved
        ELSE IF profile # st.c.effectiveProfile THEN saved
        ELSE ForwardRtpPacket(st, now, accepted)

\* Consumer::SendRtpPacket(packet, profile)
SendRtpPacket(st, profile, now, accepted) ==
    IF ~IsEnabled(st.c) THEN st
    ELSE IF IsPaused(st.c) THEN st
    ELSE IF st.pkt.pt \notin st.c.supportedCodecPayloadTypes THEN st
    ELSE IF profile # st.c.effectiveProfile THEN st
    ELSE ForwardRtpPacket(st, now, accepted)

----------------------------------------------------------------------------
(* RTCP.                                                                   *)

\* static_cast<float>((now - lastRtcpSentTime) * 1.15) < maxRtcpInterval.
\* The intervals are below 2^16, so the difference is below the interval
\* only if it fits the low half; 1.15 is taken as 115 / 100, which decides
\* the comparison the same way for the two intervals there are.
TooEarly(now, lastRtcpSentTime, maxRtcpInterval) ==
    LET elapsed == Sub64(now, lastRtcpSentTime)
    IN  /\ elapsed[1] = 0
        /\ elapsed[2] = 0
        /\ elapsed[3] * 115 < maxRtcpInterval * 100

\* packet->AddSenderReport(report) and packet->AddSdesChunk(sdesChunk)
SenderReport(ssrc) == [type |-> "SR", ssrc |-> ssrc, cname |-> ""]
SdesChunk(ssrc, cname) == [type |-> "SDES", ssrc |-> ssrc, cname |-> cname]

\* GetRtcp that does not record when it appended.
GetRtcp_ForgetsTime(st, now, supplied) ==
    IF TooEarly(now, st.c.lastRtcpSentTime, st.c.maxRtcpInterval) THEN st
    ELSE IF ~st.c.rtpStream.present THEN Abort(st)
    ELSE IF ~supplied THEN st
    ELSE LET ssrc == st.c.rtpParameters.encodings[1].ssrc
         IN  [st EXCEPT !.o.rtcp = @ \o <<SenderReport(ssrc),
                                          SdesChunk(ssrc, st.c.rtpParameters.cname)>>]

\* Consumer::GetRtcp(packet, now).  supplied: rtpStream->GetRtcpSenderReport
\* returned a report.  Without a stream the call dereferences nullptr.
GetRtcp(st, now, supplied) ==
    IF TooEarly(now, st.c.lastRtcpSentTime, st.c.maxRtcpInterval) THEN st
    ELSE IF ~st.c.rtpStream.present THEN Abort(st)
    ELSE IF ~supplied THEN st
    ELSE LET ssrc == st.c.rtpParameters.encodings[1].ssrc
         IN  [st EXCEPT !.o.rtcp = @ \o <<SenderReport(ssrc),
                                          SdesChunk(ssrc, st.c.rtpParameters.cname)>>,
                        !.c.lastRtcpSentTime = now]

----------------------------------------------------------------------------
(* Requests of the control plane.                                          *)

\* Consumer::HandleRequest(request)
HandleRequest(st, methodId) ==
    IF methodId = "CONSUMER_DUMP" THEN Accept(st)
    ELSE Reject(st, "unknown method")

----------------------------------------------------------------------------
(* Retransmission.                                                         *)

\* An element of the retransmission container that is nullptr.
NullEntry == [null |-> TRUE, pkt |-> NoPacket]

\* An element of the retransmission container that points to a packet.
Entry(pkt) == [null |-> FALSE, pkt |-> pkt]

\* Whether bit i (0 is the lowest) of the lost packet bitmask is set.
Bit(bitmask, i) == (bitmask \div (2 ^ i)) % 2 = 1

\* The sequence numbers a NACK item asks for, in order: packetId, and
\* packetId + i + 1 for each bit i set in the bitmask.
RequestedSeqs(packetId, bitmask) ==
    LET asked == SelectSeq([k \in 1..MaxRequestedPackets |-> k - 1],
                           LAMBDA k : k = 0 \/ Bit(bitmask, k - 1))
    IN  [j \in 1..Len(asked) |-> Add16(packetId, asked[j])]

\* The positions of the ring at which a packet of sequence number seq is.
StoredAt(stream, seq) ==
    {i \in 1..Len(stream.buffer) : stream.buffer[i].seq = seq}

\* RtpStreamSend::RequestRtpRetransmission(seq, bitmask, container): the
\* stored packets among those asked for, in order, and a nullptr after them.
RequestRtpRetransmission(stream, packetId, bitmask) ==
    LET asked == RequestedSeqs(packetId, bitmask)
        found == SelectSeq(asked, LAMBDA seq : StoredAt(stream, seq) # {})
    IN  [j \in 1..Len(found) |->
            Entry(stream.buffer[Max(StoredAt(stream, found[j]))])]
        \o <<NullEntry>>

\* RtpStreamSend::RtxEncode(packet): the packet becomes an RTX packet of the
\* next RTX sequence number, its own sequence number in front of the payload.
RtxEncode(stream, packet) ==
    [packet EXCEPT !.ssrc = stream.rtxSsrc,
                   !.pt = stream.rtxPayloadType,
                   !.seq = Add16(stream.rtxSeq, 1),
                   !.payload = <<packet.seq>> \o @]

\* RetransmitRtpPacket that encodes the stored packet itself, at position at
\* of the ring.
RetransmitRtpPacket_EncodesStored(st, packet, at) ==
    IF st.c.rtpStream.hasRtx
    THEN LET rtxPacket == RtxEncode(st.c.rtpStream, packet)
             s2 == [st EXCEPT !.c.rtpStream.rtxSeq = Add16(@, 1),
                              !.c.rtpStream.buffer[at] = rtxPacket,
                              !.c.retransmittedCounter = @ + 1,
                              !.pkt = rtxPacket]
         IN  TransportSendRtpPacket(s2)
    ELSE TransportSendRtpPacket([st EXCEPT !.c.retransmittedCounter = @ + 1,
                                           !.pkt = packet])

\* Consumer::RetransmitRtpPacket(packet)
RetransmitRtpPacket(st, packet, at) ==
    IF st.c.rtpStream.hasRtx
    THEN LET rtxPacket == RtxEncode(st.c.rtpStream, packet)
             s2 == [st EXCEPT !.c.rtpStream.rtxSeq = Add16(@, 1),
                              !.c.retransmittedCounter = @ + 1,
                              !.pkt = rtxPacket]
         IN  TransportSendRtpPacket(s2)
    ELSE TransportSendRtpPacket([st EXCEPT !.c.retransmittedCounter = @ + 1,
                                           !.pkt = packet])

RECURSIVE RetransmitEach(_, _, _)
\* Consumer::ReceiveNack, the inner loop from element i of the container on:
\* it ends at the first nullptr.
RetransmitEach(st, container, i) ==
    IF i > Len(container) \/ container[i].null THEN st
    ELSE RetransmitEach(
            RetransmitRtpPacket(st, container[i].pkt,
                                Max(StoredAt(st.c.rtpStream, container[i].pkt.seq))),
            container, i + 1)

RECURSIVE ReceiveNack(_, _, _)
\* Consumer::ReceiveNack(nackPacket), from item i of the NACK packet on.
ReceiveNack(st, items, i) ==
    IF ~IsEnabled(st.c) \/ i > Len(items) THEN st
    ELSE ReceiveNack(
            RetransmitEach(st, RequestRtpRetransmission(
                                   st.c.rtpStream, items[i].packetId, items[i].bitmask), 1),
            items, i + 1)

----------------------------------------------------------------------------
(* The fan-out of one producer packet.                                     *)

\* A fan-out that stops after the first subscriber.
onPeerRtpPacket_FirstOnly(order, fan, pkt, profile, now, accepted) ==
    IF order = <<>> \/ fan.aborted THEN fan
    ELSE
    LET id == Head(order)
        o0 == [fan.o EXCEPT !.id = id,
                            !.entry = Append(@, [id |-> id, pkt |-> pkt,
                                                 before |-> fan.cs[id]])]
        r  == SendRtpPacket(CallState(fan.cs[id], o0, pkt), profile, now, accepted[id])
        o1 == [r.o EXCEPT !.exit = Append(@, [id |-> id, pkt |-> r.pkt])]
    IN  [cs |-> [fan.cs EXCEPT ![id] = r.c], o |-> o1,
         pkt |-> r.pkt, aborted |-> r.aborted]

\* Room::onPeerRtpPacket / OnProducerRtpPacket: the packet object is handed
\* to every subscribed Consumer in turn (order: the iteration order of the
\* set of subscribers).  entry and exit record the header of the packet
\* object when each SendRtpPacket call starts and when it returns, entry also
\* the Consumer as the call finds it.
RECURSIVE onPeerRtpPacket(_, _, _, _, _, _)
onPeerRtpPacket(order, fan, pkt, profile, now, accepted) ==
    IF order = <<>> \/ fan.aborted THEN fan
    ELSE
    LET id == Head(order)
        o0 == [fan.o EXCEPT !.id = id,
                             !.entry = Append(@, [id |-> id, pkt |-> pkt,
                                                  before |-> fan.cs[id]])]
        r  == SendRtpPacket(CallState(fan.cs[id], o0, pkt), profile, now, accepted[id])
        o1 == [r.o EXCEPT !.exit = Append(@, [id |-> id, pkt |-> r.pkt])]
    IN  onPeerRtpPacket(Tail(order),
                        [cs |-> [fan.cs EXCEPT ![id] = r.c], o |-> o1,
                         pkt |-> r.pkt, aborted |-> r.aborted],
                        r.pkt, profile, now, accepted)

\* The producer-side entities (RtpReceivers) of the Room.
Receivers == {1, 2}

\* Room::Room: no Peer, no RtpReceiver is in mapRtpReceiverRtpSenders and no
\* consumer-side object exists.  rtpSenders are the consumer-side objects
\* that exist, closed those that were deleted.  hasCapabilities are the
\* Peers that have their capabilities set, attached the Peer each
\* consumer-side object was attached to and the callback that made it;
\* capabilities are the codecs of the Room's capabilities and mediaCodecs the
\* codecs the Room was constructed with.
NoRoom ==
    [mapRtpReceiverRtpSenders |->
         [r \in Receivers |-> [present |-> FALSE, rtpSenders |-> {}]],
     rtpSenders |-> {},
     closed |-> {},
     peers |-> {},
     hasCapabilities |-> {},
     capabilities |-> <<>>,
     mediaCodecs |-> <<>>,
     attached |-> {}]

\* The payload types from first to last, in order.
PayloadTypeRange(first, last) == [n \in 1..(last - first + 1) |-> first + n - 1]

\* dynamicPayloadTypes of Room::SetCapabilities
dynamicPayloadTypes ==
    PayloadTypeRange(100, 127) \o PayloadTypeRange(96, 99) \o PayloadTypeRange(77, 95)
        \o PayloadTypeRange(35, 71)

\* One pass of the loop over mediaCodecs in Room::SetCapabilities.  st.it is
\* the position of dynamicPayloadTypeIt, st.codecs what was appended to
\* capabilities.codecs, st.error the error thrown, after which nothing is done.
SetCodec(st, mediaCodec) ==
    LET untouched == /\ mediaCodec.hasPayloadType
                     /\ mediaCodec.payloadType \notin st.roomPayloadTypes
        free      == {n \in st.it..Len(dynamicPayloadTypes) :
                         dynamicPayloadTypes[n] \notin st.roomPayloadTypes}
        assigned  == IF untouched \/ free = {} THEN mediaCodec
                     ELSE [mediaCodec EXCEPT
                              !.payloadType = dynamicPayloadTypes[Min(free)],
                              !.hasPayloadType = TRUE]
        it1       == IF untouched THEN st.it
                     ELSE IF free = {} THEN Len(dynamicPayloadTypes) + 1
                     ELSE Min(free) + 1
    IN  IF st.error # "" THEN st
        ELSE IF ~assigned.hasPayloadType
        THEN [st EXCEPT !.error =
                 "no more available dynamic payload types for given media codecs"]
        ELSE [it               |-> it1,
              roomPayloadTypes |-> st.roomPayloadTypes \cup {assigned.payloadType},
              codecs           |-> Append(st.codecs, assigned),
              error            |-> ""]

\* The passes of the loop for mediaCodecs[first] to mediaCodecs[last], in
\* order: those of the first half, then those of the second.
RECURSIVE SetCodecs(_, _, _, _)
SetCodecs(st, mediaCodecs, first, last) ==
    IF first > last THEN st
    ELSE IF first = last THEN SetCodec(st, mediaCodecs[first])
    ELSE LET mid == (first + last) \div 2
             s   == SetCodecs(st, mediaCodecs, first, mid)
         IN  IF s.error # "" THEN s
             ELSE SetCodecs(s, mediaCodecs, mid + 1, last)

\* Room::SetCapabilities(mediaCodecs): the codecs of the capabilities, and
\* the error thrown, if any.
SetCapabilities(mediaCodecs) ==
    SetCodecs([it |-> 1, roomPayloadTypes |-> {}, codecs |-> <<>>, error |-> ""],
              mediaCodecs, 1, Len(mediaCodecs))

\* The orders in which a set of ids can be iterated.
Orders(S) ==
    {s \in [1..Cardinality(S) -> S] : \A i, j \in 1..Cardinality(S) : s[i] = s[j] => i = j}

----------------------------------------------------------------------------
(* The Room's fan-out table and the closure of the objects in it.  A room   *)
(* call state is rs = [room, cs |-> the Consumers, o, aborted].             *)

\* The listener of a closing object is told: call is the listener's method.
\* after is the number of notifications the call has emitted so far.
NotifyClosed(rs, id, call) ==
    [rs EXCEPT !.o.closed =
        Append(@, [id |-> id, call |-> call, after |-> Len(rs.o.events)])]

\* delete this: the object is gone, and with it its RtpStreamSend; nothing
\* of its fields is left (they read as those of an unused object).
Delete(rs, id) ==
    [rs EXCEPT !.cs[id] = Consumer(@.kind, 0, FALSE),
               !.room.rtpSenders = @ \ {id},
               !.room.closed = @ \cup {id},
               !.room.attached = {a \in @ : a.rtpSender # id}]

\* Room::onPeerRtpSenderClosed(peer, rtpSender)
onPeerRtpSenderClosed(rs, rtpSender) ==
    [rs EXCEPT !.room.mapRtpReceiverRtpSenders =
        [r \in Receivers |-> [@[r] EXCEPT !.rtpSenders = @ \ {rtpSender}]]]

\* RtpSender::Close().  The listener is the Peer, which hands the closure on
\* to the Room.  A call on an object that was deleted crashes.
Close(rs, id) ==
    IF id \notin rs.room.rtpSenders THEN [rs EXCEPT !.aborted = TRUE]
    ELSE
    LET s1 == Emit([rs EXCEPT !.o.id = id], "close", "RtpSender")
        s2 == onPeerRtpSenderClosed(NotifyClosed(s1, id, "onRtpSenderClosed"), id)
    IN  Delete(s2, id)

\* Destroy that tells no listener.
Destroy_TellsNoListener(rs, id) ==
    IF id \notin rs.room.rtpSenders THEN [rs EXCEPT !.aborted = TRUE]
    ELSE Delete(Emit([rs EXCEPT !.o.id = id], "close", ""), id)

\* Consumer::Destroy().  Every listener is told, and unlinks the Consumer
\* from the fan-out table.
Destroy(rs, id) ==
    IF id \notin rs.room.rtpSenders THEN [rs EXCEPT !.aborted = TRUE]
    ELSE
    LET told[n \in 0..Cardinality(rs.cs[id].listeners)] ==
            IF n = 0 THEN [rs EXCEPT !.o.id = id]
            ELSE onPeerRtpSenderClosed(
                     NotifyClosed(told[n - 1], id, "OnConsumerClosed"), id)
        s1 == told[Cardinality(rs.cs[id].listeners)]
    IN  Delete(Emit(s1, "close", ""), id)

\* The loop of Room::onPeerRtpReceiverClosed: Close() on each in turn.
RECURSIVE CloseEach(_, _)
CloseEach(order, rs) ==
    IF order = <<>> \/ rs.aborted THEN rs
    ELSE CloseEach(Tail(order), Close(rs, Head(order)))

\* onPeerRtpReceiverClosed that iterates the set in the map, which every
\* Close() shrinks: the iteration ends after the first element.
onPeerRtpReceiverClosed_IteratesLiveSet(rs, rtpReceiver, order) ==
    IF ~rs.room.mapRtpReceiverRtpSenders[rtpReceiver].present THEN rs
    ELSE
    LET s1 == IF order = <<>> THEN rs ELSE Close(rs, Head(order))
    IN  [s1 EXCEPT !.room.mapRtpReceiverRtpSenders[rtpReceiver] =
                       [present |-> FALSE, rtpSenders |-> {}],
                   !.o.receiver = rtpReceiver]

\* Room::onPeerRtpReceiverClosed(peer, rtpReceiver).  order is the iteration
\* order of the copy of the set of RtpSenders.
onPeerRtpReceiverClosed(rs, rtpReceiver, order) ==
    IF ~rs.room.mapRtpReceiverRtpSenders[rtpReceiver].present THEN rs
    ELSE
    LET s1 == CloseEach(order, rs)
    IN  [s1 EXCEPT !.room.mapRtpReceiverRtpSenders[rtpReceiver] =
                       [present |-> FALSE, rtpSenders |-> {}],
                   !.o.receiver = rtpReceiver]

\* rtpSender->Send(rtpReceiver->GetParameters()) on each of order: the
\* consumer-side object learns that the parameters of its source changed.
RECURSIVE SendEach(_, _)
SendEach(order, rs) ==
    IF order = <<>> \/ rs.aborted THEN rs
    ELSE
    LET id == Head(order)
        r  == SourceRtpParametersUpdated(CallState(rs.cs[id], rs.o, NoPacket))
    IN  SendEach(Tail(order),
                 [rs EXCEPT !.cs[id] = r.c, !.o = r.o, !.aborted = r.aborted])

\* new RTC::RtpSender for each of created, stored in the entry of rtpReceiver.
AddRtpSenders(rs, rtpReceiver, created) ==
    [rs EXCEPT !.room.mapRtpReceiverRtpSenders[rtpReceiver] =
                   [present |-> TRUE, rtpSenders |-> @.rtpSenders \cup created],
               !.room.rtpSenders = @ \cup created]

\* Room::onPeerRtpReceiverParametersDone(peer, rtpReceiver).  created are the
\* objects made for the other Peers that have capabilities, order the
\* iteration order of the set in the map.
onPeerRtpReceiverParametersDone(rs, rtpReceiver, created, order) ==
    IF ~rs.room.mapRtpReceiverRtpSenders[rtpReceiver].present
    THEN AddRtpSenders(rs, rtpReceiver, created)
    ELSE SendEach(order, rs)

\* Room::onPeerCapabilities(peer).  created gives the object made for each
\* RtpReceiver that has parameters.
onPeerCapabilities(rs, created) ==
    LET F[n \in 0..Cardinality(Receivers)] ==
            IF n = 0 THEN rs
            ELSE IF n \in DOMAIN created
                 THEN SendEach(<<created[n]>>,
                               AddRtpSenders(F[n - 1], n, {created[n]}))
                 ELSE F[n - 1]
    IN  F[Cardinality(Receivers)]

\* Peer::GetRtpReceivers(): RtpReceiver r is of Peer r.
GetRtpReceivers(peer) == {r \in Receivers : r = peer}

\* The RtpReceivers Room::onPeerCapabilities makes a consumer-side object
\* for: those with parameters of each Peer of Room::peers.
ReadyRtpReceivers(rs) ==
    {r \in Receivers :
        /\ \E receiver_peer \in rs.room.peers : r \in GetRtpReceivers(receiver_peer)
        /\ rs.room.mapRtpReceiverRtpSenders[r].present}

\* The Peers Room::onPeerRtpReceiverParametersDone makes a consumer-side
\* object for: those of Room::peers but the receiver's, with capabilities.
SenderPeers(rs, peer) ==
    {sender_peer \in rs.room.peers :
        sender_peer # peer /\ sender_peer \in rs.room.hasCapabilities}

\* peer->AddRtpSender(rtpSender, peerName, rtpParameters) in callback by.
AddRtpSender(rs, peer, rtpSender, by) ==
    [rs EXCEPT !.room.attached =
        @ \cup {[rtpSender |-> rtpSender, peer |-> peer, by |-> by]}]

\* Peer::HandleRequest of peer_setCapabilities: the Peer has capabilities and
\* tells the Room, which attaches to it the object created[r] for each ready
\* RtpReceiver r.
PeerSetCapabilities(rs, peer, created) ==
    LET s1 == [rs EXCEPT !.room.hasCapabilities = @ \cup {peer}]
        s2 == onPeerCapabilities(s1, created)
        F[n \in 0..Cardinality(Receivers)] ==
            IF n = 0 THEN s2
            ELSE IF n \in DOMAIN created
                 THEN AddRtpSender(F[n - 1], peer, created[n], "onPeerCapabilities")
                 ELSE F[n - 1]
    IN  F[Cardinality(Receivers)]

\* RtpReceiver::HandleRequest of rtpReceiver_receive, through the Peer: the
\* Room is told that rtpReceiver of peer has its parameters; created[p] is
\* the object made for sender_peer p.
PeerRtpReceiverParametersDone(rs, peer, rtpReceiver, created, order) ==
    LET new == ~rs.room.mapRtpReceiverRtpSenders[rtpReceiver].present
        s1  == onPeerRtpReceiverParametersDone(
                   rs, rtpReceiver, {created[p] : p \in DOMAIN created}, order)
        RECURSIVE Attach(_, _)
        Attach(s, left) ==
            IF left = {} THEN s
            ELSE LET p == Min(left)
                 IN  Attach(AddRtpSender(s, p, created[p],
                                         "onPeerRtpReceiverParametersDone"),
                            left \ {p})
    IN  IF new THEN Attach(s1, DOMAIN created) ELSE s1

\* Room::Room(listener, notifier, roomId, data): the Room made of
\* data.mediaCodecs, and the error its constructor throws, if any.
Room(mediaCodecs) ==
    LET r == SetCapabilities(mediaCodecs)
    IN  [room  |-> [NoRoom EXCEPT !.capabilities = r.codecs,
                                  !.mediaCodecs = mediaCodecs],
         error |-> r.error]

----------------------------------------------------------------------------
(* Requests to the Room and to the Loop.                                   *)

\* The methods Room::HandleRequest hands on to the Peer named in the request.
PeerMethodIds ==
    {"peer_close", "peer_dump", "peer_setCapabilities", "peer_createTransport",
     "peer_createRtpReceiver", "transport_close", "transport_dump",
     "transport_setRemoteDtlsParameters", "rtpReceiver_close", "rtpReceiver_dump",
     "rtpReceiver_receive", "rtpReceiver_setRtpRawEvent",
     "rtpReceiver_setRtpObjectEvent", "rtpSender_dump", "rtpSender_setTransport"}

\* Room::onPeerClosed(peer)
onPeerClosed(rs, peer) == [rs EXCEPT !.room.peers = @ \ {peer}]

\* Peer::Close(): the Peer is closed and tells its listener, the Room.
PeerClose(rs, peer) ==
    onPeerClosed([rs EXCEPT !.o.peersClosed =
                     Append(@, [id |-> peer, after |-> Len(rs.o.events)])],
                 peer)

\* The loop of Room::Close() with peer->Close() before peers.erase(it): the
\* Peer has erased itself by then, and the erasure through the iterator
\* takes the next Peer out of the map unclosed.
RECURSIVE ClosePeers_ClosesFirst(_)
ClosePeers_ClosesFirst(rs) ==
    IF rs.room.peers = {} THEN rs
    ELSE LET s1 == PeerClose(rs, Min(rs.room.peers))
         IN  ClosePeers_ClosesFirst(
                 IF s1.room.peers = {} THEN s1
                 ELSE [s1 EXCEPT !.room.peers = @ \ {Min(@)}])

\* The loop of Room::Close() over Room::peers: the Peer at the iterator is
\* erased from the map, then closed; the iterator is then at the first of
\* the Peers left.
RECURSIVE ClosePeers(_)
ClosePeers(rs) ==
    IF rs.room.peers = {} THEN rs
    ELSE LET peer == Min(rs.room.peers)
             s1   == [rs EXCEPT !.room.peers = @ \ {peer}]
         IN  ClosePeers(PeerClose(s1, peer))

\* Room::Close().  Each Peer closes what it owns: the consumer-side objects
\* are closed in some order and the RtpReceivers leave the map.  The listener
\* is the Loop, which forgets the Room.
RoomClose(rs, order) ==
    LET s1 == ClosePeers(CloseEach(order, rs))
        s2 == [s1 EXCEPT !.room.mapRtpReceiverRtpSenders =
                             [r \in Receivers |-> [present |-> FALSE, rtpSenders |-> {}]],
                         !.room.hasCapabilities = {},
                         !.room.attached = {},
                         !.room.capabilities = <<>>,
                         !.room.mediaCodecs = <<>>]
        s3 == Emit([s2 EXCEPT !.o.id = 0], "close", "Room")
        s4 == NotifyClosed(s3, 0, "onRoomClosed")
    IN  [s4 EXCEPT !.rooms = @ \ {1}]

\* Room::HandleRequest that answers room_close before it closes the Room.
RoomHandleRequest_AcceptsFirst(rs, methodId, peerId, named, answer, order) ==
    CASE methodId = "room_close" -> RoomClose(Accept(rs), order)
      [] methodId = "room_dump" -> Accept(rs)
      [] methodId = "room_createPeer" ->
            IF peerId = 0 THEN Reject(rs, "Request has not numeric .peerId field")
            ELSE IF peerId \in rs.room.peers THEN Reject(rs, "Peer already exists")
            ELSE IF ~named THEN Reject(rs, "Request has not string internal.peerName")
            ELSE IF ~answer THEN Reject(rs, "")
            ELSE Accept([rs EXCEPT !.room.peers = @ \cup {peerId}])
      [] methodId \in PeerMethodIds ->
            IF peerId = 0 THEN Reject(rs, "Request has not numeric .peerId field")
            ELSE IF peerId \notin rs.room.peers THEN Reject(rs, "Peer does not exist")
            ELSE IF answer THEN Accept(rs) ELSE Reject(rs, "")
      [] OTHER -> Reject(rs, "unknown method")

\* Room::HandleRequest(request).  peerId is internal.peerId (0: not a number),
\* named: internal.peerName is a string, answer: what the Peer answers to a
\* request handed on to it, and whether its constructor returns.
RoomHandleRequest(rs, methodId, peerId, named, answer, order) ==
    CASE methodId = "room_close" -> Accept(RoomClose(rs, order))
      [] methodId = "room_dump" -> Accept(rs)
      [] methodId = "room_createPeer" ->
            IF peerId = 0 THEN Reject(rs, "Request has not numeric .peerId field")
            ELSE IF peerId \in rs.room.peers THEN Reject(rs, "Peer already exists")
            ELSE IF ~named THEN Reject(rs, "Request has not string internal.peerName")
            ELSE IF ~answer THEN Reject(rs, "")
            ELSE Accept([rs EXCEPT !.room.peers = @ \cup {peerId}])
      [] methodId \in PeerMethodIds ->
            IF peerId = 0 THEN Reject(rs, "Request has not numeric .peerId field")
            ELSE IF peerId \notin rs.room.peers THEN Reject(rs, "Peer does not exist")
            ELSE IF answer THEN Accept(rs) ELSE Reject(rs, "")
      [] OTHER -> Reject(rs, "unknown method")

\* Loop::onChannelRequest with a createRoom that does not look the Room up.
onChannelRequest_NoExistsTest(rs, methodId, roomId, throws, answer, order) ==
    CASE methodId = "updateSettings" ->
            IF answer THEN Accept(rs) ELSE Reject(rs, "")
      [] methodId = "createRoom" ->
            IF roomId = 0 THEN Reject(rs, "Request has no numeric .roomId field")
            ELSE IF throws THEN Reject(rs, "")
            ELSE Accept([rs EXCEPT !.rooms = @ \cup {roomId},
                                   !.room = IF roomId = 1
                                            THEN [NoRoom EXCEPT !.closed = rs.room.closed]
                                            ELSE @])
      [] methodId = "closeRoom" ->
            IF roomId = 0 THEN Reject(rs, "Request has no numeric .roomId field")
            ELSE IF roomId \notin rs.rooms THEN Reject(rs, "Room does not exist")
            ELSE IF roomId = 1
            THEN Accept([RoomClose(rs, order) EXCEPT !.rooms = @ \ {roomId}])
            ELSE Accept([rs EXCEPT !.rooms = @ \ {roomId}])
      [] methodId \in {"createPeer", "closePeer"} ->
            IF roomId = 0 THEN Reject(rs, "Request has no numeric .roomId field")
            ELSE IF roomId \notin rs.rooms THEN Reject(rs, "Room does not exist")
            ELSE IF answer THEN Accept(rs) ELSE Reject(rs, "")
      [] OTHER -> Abort(rs)

\* Loop::onChannelRequest(channel, request).  roomId is data.roomId (0: not a
\* number), throws: the constructor of the Room throws, answer: what the
\* Settings or the Room answer to a request handed on to them.
onChannelRequest(rs, methodId, roomId, throws, answer, order) ==
    CASE methodId = "updateSettings" ->
            IF answer THEN Accept(rs) ELSE Reject(rs, "")
      [] methodId = "createRoom" ->
            IF roomId = 0 THEN Reject(rs, "Request has no numeric .roomId field")
            ELSE IF roomId \in rs.rooms THEN Reject(rs, "Room already exists")
            ELSE IF throws THEN Reject(rs, "")
            ELSE Accept([rs EXCEPT !.rooms = @ \cup {roomId},
                                   !.room = IF roomId = 1
                                            THEN [NoRoom EXCEPT !.closed = rs.room.closed]
                                            ELSE @])
      [] methodId = "closeRoom" ->
            IF roomId = 0 THEN Reject(rs, "Request has no numeric .roomId field")
            ELSE IF roomId \notin rs.rooms THEN Reject(rs, "Room does not exist")
            ELSE IF roomId = 1
            THEN Accept([RoomClose(rs, order) EXCEPT !.rooms = @ \ {roomId}])
            ELSE Accept([rs EXCEPT !.rooms = @ \ {roomId}])
      [] methodId \in {"createPeer", "closePeer"} ->
            IF roomId = 0 THEN Reject(rs, "Request has no numeric .roomId field")
            ELSE IF roomId \notin rs.rooms THEN Reject(rs, "Room does not exist")
            ELSE IF answer THEN Accept(rs) ELSE Reject(rs, "")
      [] OTHER -> Abort(rs)

\* Loop::Loop: not closed, the signals handler and the channel are open and
\* no Room was closed.  signalsHandler and channel count the calls of their
\* Close(), closedRooms are the roomIds Loop::Close() called Room::Close() on,
\* triggers the signals and channel closures handled.
NoLoop ==
    [closed |-> FALSE, signalsHandler |-> 0, channel |-> 0,
     closedRooms |-> <<>>, triggers |-> 0]

\* The loop over Loop::rooms in Loop::Close(): Room::Close() on each Room, in
\* the order of the map.  The Room this Loop constructs has no listener, so
\* the map keeps its entries.
RECURSIVE CloseRooms(_, _, _)
CloseRooms(ls, left, order) ==
    IF left = {} THEN ls
    ELSE LET roomId == Min(left)
             rs     == IF roomId = 1
                       THEN [RoomClose(ls.rs, order) EXCEPT !.rooms = ls.rs.rooms]
                       ELSE ls.rs
         IN  CloseRooms([ls EXCEPT !.rs = rs,
                                   !.loop.closedRooms = Append(@, roomId)],
                        left \ {roomId}, order)

\* Loop::Close() without the closed flag.
LoopClose_Unguarded(ls, order) ==
    CloseRooms([ls EXCEPT !.loop.closed = TRUE,
                          !.loop.signalsHandler = @ + 1,
                          !.loop.channel = @ + 1],
               ls.rs.rooms, order)

\* Loop::Close()
LoopClose(ls, order) ==
    IF ls.loop.closed THEN ls
    ELSE CloseRooms([ls EXCEPT !.loop.closed = TRUE,
                               !.loop.signalsHandler = @ + 1,
                               !.loop.channel = @ + 1],
                    ls.rs.rooms, order)

\* Loop::onSignal(signalsHandler, signum)
onSignal(ls, signum, order) ==
    CASE signum = "SIGINT" -> LoopClose(ls, order)
      [] signum = "SIGTERM" -> LoopClose(ls, order)
      [] OTHER -> ls

\* Loop::onChannelUnixStreamSocketRemotelyClosed(socket)
onChannelUnixStreamSocketRemotelyClosed(ls, order) == LoopClose(ls, order)

----------------------------------------------------------------------------
(* RTC::RtpSender, the consumer-side object of a Peer.  RTP parameters are   *)
(* a sequence of codecs [payloadType, mime, clockRate] and a sequence of     *)
(* encodings [codecPayloadType].                                            *)

\* RtpSender::RtpSender: no parameters, no stream, nothing supported.
NoRtpSender ==
    [hasRtpParameters      |-> FALSE,
     rtpParameters         |-> [codecs |-> <<>>, encodings |-> <<>>],
     supportedPayloadTypes |-> {},
     available             |-> FALSE,
     rtpStream             |-> 0,
     events                |-> <<>>,
     sends                 |-> 0]

\* RtpCodecParameters::Matches: the capability is of the codec's mime.
Matches(peerCapabilities, codec) == codec.mime \in peerCapabilities

\* RtpSender::Send(rtpParameters): the RtpSender after the call, and whether
\* the call ended in MS_ABORT.
Send(s, peerCapabilities, rtpParameters) ==
    LET codecs    == SelectSeq(rtpParameters.codecs,
                               LAMBDA c : Matches(peerCapabilities, c))
        supported == s.supportedPayloadTypes
                         \cup {codecs[n].payloadType : n \in DOMAIN codecs}
        encodings == SelectSeq(rtpParameters.encodings,
                               LAMBDA e : e.codecPayloadType \in supported)
        found     == {n \in DOMAIN codecs :
                         codecs[n].payloadType = encodings[1].codecPayloadType}
        s1        == [s EXCEPT !.hasRtpParameters = TRUE,
                               !.rtpParameters =
                                   [codecs |-> codecs, encodings |-> encodings],
                               !.supportedPayloadTypes = supported,
                               !.sends = @ + 1]
        changed   == [class |-> "RtpSender", event |-> "parameterschange"]
    IN  IF encodings = <<>>
        THEN [s |-> [s1 EXCEPT !.available = FALSE,
                               !.events = IF s.hasRtpParameters
                                          THEN Append(@, changed) ELSE @],
              aborted |-> FALSE]
        ELSE IF found = {}
        THEN [s |-> [s1 EXCEPT !.available = TRUE], aborted |-> TRUE]
        ELSE [s |-> [s1 EXCEPT !.available = TRUE,
                               !.rtpStream = codecs[Min(found)].clockRate,
                               !.events = IF s.hasRtpParameters
                                          THEN Append(@, changed) ELSE @],
              aborted |-> FALSE]

----------------------------------------------------------------------------
(* RTC::SeqManager<T>: the mapping of an input sequence space of width W   *)
(* onto an output one.  A manager is the highest input seen and the set of *)
(* the inputs dropped since the last Sync.                                 *)

W8 == 2 ^ 8

SeqManager == [maxInput |-> 0, dropped |-> {}]

\* RFC 1982: a is higher than b iff (a - b) mod W lies in the lower half.
IsSeqHigherThan(a, b, W) ==
    LET diff == (a - b + W) % W
    IN  diff # 0 /\ diff < W \div 2

SeqSync(m, base) == [maxInput |-> base, dropped |-> {}]

SeqDrop(m, input) == [m EXCEPT !.dropped = @ \cup {input}]

\* Input(input) -> (output, accepted): a dropped input is refused; an
\* accepted one is shifted down by the drops behind it.
SeqInput(m, input, W) ==
    IF input \in m.dropped
    THEN [m |-> m, accepted |-> FALSE, output |-> 0]
    ELSE [m |-> [m EXCEPT !.maxInput =
                     IF IsSeqHigherThan(input, @, W) THEN input ELSE @],
          accepted |-> TRUE,
          output |-> (input + W - Cardinality(
                        {x \in m.dropped : IsSeqHigherThan(input, x, W)})) % W]

----------------------------------------------------------------------------
(* RTC::Codecs::VP8.                                                       *)

\* The two bits of tlIndex.
MaxTlIndex == 3

\* VP8::EncodingContext.
EncodingContext(target) ==
    [syncRequired           |-> FALSE,
     targetTemporalLayer    |-> target,
     currentTemporalLayer   |-> target,
     pictureIdManager       |-> SeqManager,
     tl0PictureIndexManager |-> SeqManager]

SetTargetTemporalLayer(context, target) ==
    [context EXCEPT !.targetTemporalLayer = target]

SyncRequired(context) == [context EXCEPT !.syncRequired = TRUE]

\* What Parse leaves in a PayloadDescriptor of an extended descriptor: a
\* field that is absent keeps its initial value 0.
PayloadDescriptor(i, l, t, pictureId, tl0PictureIndex, tlIndex, y, isKeyFrame) ==
    [hasPictureId       |-> i,
     hasTl0PictureIndex |-> l,
     hasTlIndex         |-> t,
     pictureId          |-> IF i THEN pictureId ELSE 0,
     tl0PictureIndex    |-> IF l THEN tl0PictureIndex ELSE 0,
     tlIndex            |-> IF t THEN tlIndex ELSE 0,
     y                  |-> t /\ y,
     isKeyFrame         |-> isKeyFrame]

\* PayloadDescriptorHandler::Process: the context after the call, what the
\* call returns, and the pictureId and tl0PictureIndex it encodes.
Process(context, d) ==
    LET sync == context.syncRequired /\ d.hasPictureId /\ d.hasTl0PictureIndex
        c1 == IF sync
              THEN [context EXCEPT
                      !.pictureIdManager = SeqSync(@, Sub16(d.pictureId, 1)),
                      !.tl0PictureIndexManager =
                          SeqSync(@, (d.tl0PictureIndex + W8 - 1) % W8),
                      !.syncRequired = FALSE]
              ELSE context
        c2 == IF d.isKeyFrame
              THEN [c1 EXCEPT !.currentTemporalLayer = c1.targetTemporalLayer]
              ELSE c1
        incremental ==
            /\ d.hasPictureId
            /\ d.hasTlIndex
            /\ d.hasTl0PictureIndex
            /\ IsSeqHigherThan(d.pictureId, c2.pictureIdManager.maxInput, W16)
        drop == [context |-> [c2 EXCEPT
                                !.pictureIdManager = SeqDrop(@, d.pictureId),
                                !.tl0PictureIndexManager =
                                    SeqDrop(@, d.tl0PictureIndex)],
                 result |-> FALSE, encoded |-> <<>>]
        pid == SeqInput(c2.pictureIdManager, d.pictureId, W16)
        c3  == IF d.hasPictureId
               THEN [c2 EXCEPT !.pictureIdManager = pid.m]
               ELSE c2
        tl0 == SeqInput(c3.tl0PictureIndexManager, d.tl0PictureIndex, W8)
        c4  == IF d.hasTl0PictureIndex
               THEN [c3 EXCEPT !.tl0PictureIndexManager = tl0.m]
               ELSE c3
        c5  == IF d.tlIndex > c4.currentTemporalLayer
               THEN [c4 EXCEPT !.currentTemporalLayer = d.tlIndex]
               ELSE c4
        c6  == IF c5.currentTemporalLayer > c5.targetTemporalLayer
               THEN [c5 EXCEPT !.currentTemporalLayer = c5.targetTemporalLayer]
               ELSE c5
    IN  IF incremental /\ d.tlIndex > c2.targetTemporalLayer
        THEN drop
        ELSE IF incremental /\ d.tlIndex > c2.currentTemporalLayer /\ ~d.y
        THEN drop
        ELSE IF d.hasPictureId /\ ~pid.accepted
        THEN [context |-> c2, result |-> FALSE, encoded |-> <<>>]
        ELSE IF d.hasTl0PictureIndex /\ ~tl0.accepted
        THEN [context |-> c3, result |-> FALSE, encoded |-> <<>>]
        ELSE [context |-> c6, result |-> TRUE,
              encoded |-> IF d.hasPictureId /\ d.hasTl0PictureIndex
                          THEN <<pid.output, tl0.output>>
                          ELSE <<>>]

\* What Parse returns for a payload that has no extended descriptor, or is
\* shorter than its descriptor: nullptr.
NoPayloadDescriptor ==
    [valid |-> FALSE, extended |-> FALSE, nonReference |-> FALSE,
     start |-> FALSE, partitionIndex |-> 0,
     i |-> FALSE, l |-> FALSE, t |-> FALSE, k |-> FALSE,
     hasPictureId |-> FALSE, hasOneBytePictureId |-> FALSE,
     hasTwoBytesPictureId |-> FALSE, pictureId |-> 0,
     hasTl0PictureIndex |-> FALSE, tl0PictureIndex |-> 0,
     hasTlIndex |-> FALSE, tlIndex |-> 0, y |-> FALSE, keyIndex |-> 0,
     isKeyFrame |-> FALSE]

\* VP8::Parse of a payload, a sequence of bytes.  The offsets are those of
\* the code, counted from 0: data[offset] is data[offset + 1] here.
Parse(data) ==
    LET len == Len(data)
        i   == Bit(data[2], 7)
        l   == Bit(data[2], 6)
        t   == Bit(data[2], 5)
        k   == Bit(data[2], 4)
        two == Bit(data[3], 7)
        oI  == IF i THEN (IF two THEN 3 ELSE 2) ELSE 1
        oL  == IF l THEN oI + 1 ELSE oI
        oT  == IF t \/ k THEN oL + 1 ELSE oL
        absent ==
            \/ len < 1
            \/ ~Bit(data[1], 7)
            \/ len < 2
            \/ i /\ len < 3
            \/ i /\ two /\ len < 4
            \/ l /\ len < oL + 1
            \/ (t \/ k) /\ len < oT + 1
    IN  IF absent
        THEN NoPayloadDescriptor
        ELSE [valid                |-> TRUE,
              extended             |-> TRUE,
              nonReference         |-> Bit(data[1], 5),
              start                |-> Bit(data[1], 4),
              partitionIndex       |-> data[1] % 8,
              i |-> i, l |-> l, t |-> t, k |-> k,
              hasPictureId         |-> i,
              hasOneBytePictureId  |-> i /\ ~two,
              hasTwoBytesPictureId |-> i /\ two,
              pictureId            |->
                  IF ~i THEN 0
                  ELSE IF two THEN (data[3] % 128) * 256 + data[4]
                  ELSE data[3] % 128,
              hasTl0PictureIndex   |-> l,
              tl0PictureIndex      |-> IF l THEN data[oL + 1] ELSE 0,
              hasTlIndex           |-> t \/ k,
              tlIndex              |-> IF t \/ k
                                       THEN (data[oT + 1] \div 64) % 4
                                       ELSE 0,
              y                    |-> (t \/ k) /\ Bit(data[oT + 1], 5),
              keyIndex             |-> IF t \/ k THEN data[oT + 1] % 32 ELSE 0,
              isKeyFrame           |->
                  /\ len >= oT + 2
                  /\ Bit(data[1], 4)
                  /\ data[1] % 8 = 0
                  /\ ~Bit(data[oT + 2], 0)]

\* PayloadDescriptor::Encode with the pictureId field taken to start at the
\* second byte of the payload.
Encode_SkipsOneByte(d, data, pictureId, tl0PictureIndex) ==
    IF ~d.extended
    THEN data
    ELSE IF d.i /\ d.hasTwoBytesPictureId
    THEN [data EXCEPT ![2] = pictureId \div 256, ![3] = pictureId % 256]
    ELSE IF d.i /\ d.hasOneBytePictureId
    THEN [data EXCEPT ![2] = pictureId % 256]
    ELSE data

\* PayloadDescriptor::Encode: the payload with pictureId and tl0PictureIndex
\* written over the fields of the descriptor.  A uint16_t pictureId is
\* written in network order with the bit of the two-byte form set; in the
\* one-byte form it is cast to a byte.
Encode(d, data, pictureId, tl0PictureIndex) ==
    LET hi      == (pictureId \div 256) % 256
        afterId == IF d.i /\ d.hasTwoBytesPictureId
                   THEN [data EXCEPT ![3] = IF Bit(hi, 7) THEN hi ELSE hi + 128,
                                     ![4] = pictureId % 256]
                   ELSE IF d.i /\ d.hasOneBytePictureId
                   THEN [data EXCEPT ![3] = pictureId % 256]
                   ELSE data
        at      == IF d.i /\ d.hasTwoBytesPictureId THEN 5
                   ELSE IF d.i /\ d.hasOneBytePictureId THEN 4
                   ELSE 3
    IN  IF ~d.extended
        THEN data
        ELSE IF d.l
        THEN [afterId EXCEPT ![at] = tl0PictureIndex % 256]
        ELSE afterId

\* PayloadDescriptor::Restore.
Restore(d, data) == Encode(d, data, d.pictureId, d.tl0PictureIndex)

\* PayloadDescriptorHandler::Restore, which leaves the payload as it is.
HandlerRestore_Nothing(d, data) == data

\* PayloadDescriptorHandler::Restore.
HandlerRestore(d, data) ==
    IF d.hasPictureId /\ d.hasTl0PictureIndex
    THEN Restore(d, data)
    ELSE data

\* VP8::ProcessRtpPacket: the descriptor handed to the packet's handler and
\* the payload, in which a one-byte pictureId is made a two-byte one.
ProcessRtpPacket(data) ==
    LET d == Parse(data)
    IN  IF ~d.valid
        THEN [handler |-> d, data |-> data]
        ELSE IF d.hasOneBytePictureId
        THEN [handler |-> [d EXCEPT !.hasOneBytePictureId = FALSE,
                                    !.hasTwoBytesPictureId = TRUE],
              data    |-> SubSeq(data, 1, 2) \o <<128>>
                              \o SubSeq(data, 3, Len(data))]
        ELSE [handler |-> d, data |-> data]

\* No packet processed yet: a context whose target is the base layer.
NoVp8 ==
    [context |-> EncodingContext(0),
     calls   |-> 0,
     last    |-> [valid |-> FALSE, d |-> PayloadDescriptor(FALSE, FALSE, FALSE,
                                                          0, 0, 0, FALSE, FALSE),
                  target |-> 0, current |-> 0, higher |-> FALSE,
                  result |-> FALSE, payload |-> <<>>, data |-> <<>>,
                  processed |-> <<>>, restored |-> <<>>],
     sent    |-> <<>>]

----------------------------------------------------------------------------
(* Inputs.                                                                 *)

Kinds == {"audio", "video", "depth"}

\* Utils::Crypto::GetRandomUInt(0x00FF, 0xFFFF)
SeqNumInputs == {255, 65535}

Transports == {1}

VideoCodecs ==
    <<[payloadType |-> 100, rtx |-> FALSE,
       rtcpFeedback |-> {<<"nack", "">>, <<"nack", "pli">>}],
      [payloadType |-> 101, rtx |-> TRUE, rtcpFeedback |-> {}]>>

AudioCodecs ==
    <<[payloadType |-> 111, rtx |-> FALSE, rtcpFeedback |-> {}]>>

VideoParameters ==
    [cname |-> "cname", codecs |-> VideoCodecs,
     encodings |-> <<[ssrc |-> 2000, codecPayloadType |-> 100,
                      hasRtx |-> TRUE, rtxSsrc |-> 2001]>>]

AudioParameters ==
    [cname |-> "cname", codecs |-> AudioCodecs,
     encodings |-> <<[ssrc |-> 3000, codecPayloadType |-> 111,
                      hasRtx |-> FALSE, rtxSsrc |-> 0]>>]

\* Invalid: no encoding.
EmptyEncodingsParameters == [cname |-> "cname", codecs |-> VideoCodecs, encodings |-> <<>>]

\* Invalid: encodings[0].ssrc is 0.
ZeroSsrcParameters ==
    [cname |-> "cname", codecs |-> VideoCodecs,
     encodings |-> <<[ssrc |-> 0, codecPayloadType |-> 100,
                      hasRtx |-> FALSE, rtxSsrc |-> 0]>>]

\* The first encoding names a payload type of no codec.
UnknownCodecParameters ==
    [cname |-> "cname", codecs |-> AudioCodecs,
     encodings |-> <<[ssrc |-> 4000, codecPayloadType |-> 96,
                      hasRtx |-> FALSE, rtxSsrc |-> 0]>>]

ValidRtpParameters == {VideoParameters, AudioParameters}

\* Video with NACK negotiated and no RTX.
VideoNoRtxParameters ==
    [cname |-> "cname", codecs |-> VideoCodecs,
     encodings |-> <<[ssrc |-> 2000, codecPayloadType |-> 100,
                      hasRtx |-> FALSE, rtxSsrc |-> 0]>>]

\* What a Consumer is enabled with where retransmission is looked at: NACK
\* and RTX, NACK only, and neither (the ring then has no capacity).
NackRtpParameters == {VideoParameters, VideoNoRtxParameters, AudioParameters}

RtpParametersInputs ==
    ValidRtpParameters \cup
    {EmptyEncodingsParameters, ZeroSsrcParameters, UnknownCodecParameters}

\* Producer packets (ssrc 1000).  Sequence numbers on both sides of the 16-bit
\* wrap and timestamps on both sides of the 32-bit wrap: delivered in either
\* order, or twice, they are a wrap, a reordering and a duplicate.
PacketA == [ssrc |-> 1000, seq |-> 65535, ts |-> U32(65535, 65000), pt |-> 100,
            payload |-> <<1>>]
PacketB == [ssrc |-> 1000, seq |-> 0, ts |-> U32(0, 3000), pt |-> 100,
            payload |-> <<2>>]
\* A packet of the audio codec.
PacketC == [ssrc |-> 1000, seq |-> 0, ts |-> U32(0, 3000), pt |-> 111,
            payload |-> <<3>>]

PacketInputs == {PacketA, PacketB, PacketC}

\* Milliseconds between two looks at the clock: the last one at which
\* GetRtcp is too early, and the first one at which it is not, for the video
\* and for the audio interval.
TickInputs == {869, 870, 4347, 4348}

\* Values of DepLibUV::GetTime().
NowInputs == {U64(0, 0, 500), U64(1, 65535, 65500)}

\* The profiles a producer announces and withdraws.
ProfileInputs == Profiles \ {NONE}

----------------------------------------------------------------------------
(* Actions: one public operation on one Consumer.                          *)

\* The data of the last "effectiveprofilechange" in events, else old.
LastNotifiedOf(events, old) ==
    LET mine == {i \in 1..Len(events) : events[i].event = "effectiveprofilechange"}
    IN  IF mine = {} THEN old ELSE events[Max(mine)].data

\* No RTCP appended yet.
NoEmission == [valid |-> FALSE, time |-> U64(0, 0, 0), disabled |-> FALSE]
NoRtcp == [last |-> NoEmission, previous |-> NoEmission]

\* The last time the Consumer appended RTCP and the time before that, each
\* with whether Disable() ran between it and the next, after a call that
\* ended in call state st.
LastRtcpOf(st, old) ==
    IF st.o.rtcp # <<>>
    THEN [last |-> [valid |-> TRUE, time |-> st.o.now, disabled |-> FALSE],
          previous |-> old.last]
    ELSE [old EXCEPT !.last.disabled = @ \/ (old.last.valid /\ st.disabled)]

\* The state after a call on Consumer id that ended in call state st.  Only
\* an object that exists can be called.
Return(id, st) ==
    /\ id \in room.rtpSenders
    /\ consumers' = [consumers EXCEPT ![id] = st.c]
    /\ out' = st.o
    /\ aborted' = st.aborted
    /\ lastNotified' = [lastNotified EXCEPT ![id] = LastNotifiedOf(st.o.events, @)]
    /\ lastRtcp' = [lastRtcp EXCEPT ![id] = LastRtcpOf(st, @)]
    /\ UNCHANGED <<lastSent, packets, room, clock, rooms, loop, vp8, sender>>

Call(id) == CallState(consumers[id], NoOut(id), NoPacket)

EnableCall(parameters) ==
    \E id \in DOMAIN consumers, transport \in Transports,
       rtpParameters \in parameters :
        /\ ~aborted
        /\ Return(id, Enable(Call(id), transport, rtpParameters))

DisableCall ==
    \E id \in DOMAIN consumers :
        /\ ~aborted
        /\ Return(id, Disable(Call(id)))

PauseCall ==
    \E id \in DOMAIN consumers :
        /\ ~aborted
        /\ Return(id, Pause(Call(id)))

ResumeCall ==
    \E id \in DOMAIN consumers :
        /\ ~aborted
        /\ Return(id, Resume(Call(id)))

SourcePauseCall ==
    \E id \in DOMAIN consumers :
        /\ ~aborted
        /\ Return(id, SourcePause(Call(id)))

SourceResumeCall ==
    \E id \in DOMAIN consumers :
        /\ ~aborted
        /\ Return(id, SourceResume(Call(id)))

SourceRtpParametersUpdatedCall ==
    \E id \in DOMAIN consumers :
        /\ ~aborted
        /\ Return(id, SourceRtpParametersUpdated(Call(id)))

AddProfileCall(profiles) ==
    \E id \in DOMAIN consumers, profile \in profiles :
        /\ ~aborted
        /\ \E st \in {AddProfile(Call(id), profile, ub) : ub \in Profiles} :
              Return(id, st)

RemoveProfileCall(profiles) ==
    \E id \in DOMAIN consumers, profile \in profiles :
        /\ ~aborted
        /\ \E st \in {RemoveProfile(Call(id), profile, ub) : ub \in Profiles} :
              Return(id, st)

SetPreferredProfileCall(profiles) ==
    \E id \in DOMAIN consumers, profile \in profiles :
        /\ ~aborted
        /\ \E st \in {SetPreferredProfile(Call(id), profile, ub) : ub \in Profiles} :
              Return(id, st)

\* The transport of an enabled Consumer asks it for RTCP at the current time.
GetRtcpCall ==
    \E id \in DOMAIN consumers, supplied \in BOOLEAN :
        /\ ~aborted
        /\ IsEnabled(consumers[id])
        /\ Return(id, GetRtcp([Call(id) EXCEPT !.o.now = clock], clock, supplied))

\* Time passes: d milliseconds, up to max.
Tick(ds, max) ==
    \E d \in ds :
        /\ ~aborted
        /\ clock[1] = 0 /\ clock[2] = 0 /\ clock[3] + d <= max
        /\ clock' = Add64(clock, d)
        /\ UNCHANGED <<consumers, out, lastSent, lastNotified, packets, aborted,
                       room, lastRtcp, rooms, loop, vp8, sender>>

\* Sequence numbers a receiver reports as lost to Consumer c: the last one
\* emitted, the one before it and the one after it.
PacketIdInputs(c) == {Sub16(c.seqNum, 1), c.seqNum, Add16(c.seqNum, 1)}

\* Lost packet bitmasks: nothing else, the next packet, all sixteen.
BitmaskInputs == {0, 1, 65535}

\* NACK packets of one item, and of the same item twice.
NackInputs(c) ==
    {[k \in 1..n |-> [packetId |-> packetId, bitmask |-> bitmask]] :
        packetId \in PacketIdInputs(c), bitmask \in BitmaskInputs, n \in {1, 2}}

\* Two NACK packets: one names the last sequence number Consumer c emitted;
\* the other names, in two items, the oldest one its ring can hold when that
\* is the newest, and the one before it.
RingNackInputs(c) ==
    {<<[packetId |-> c.seqNum, bitmask |-> 0]>>,
     <<[packetId |-> Sub16(c.seqNum, c.rtpStream.capacity), bitmask |-> 0],
       [packetId |-> Sub16(c.seqNum, c.rtpStream.capacity - 1), bitmask |-> 0]>>}

ReceiveNackCall(ring, max) ==
    \E id \in DOMAIN consumers :
    \E items \in IF ring THEN RingNackInputs(consumers[id])
                        ELSE NackInputs(consumers[id]) :
        /\ ~aborted
        /\ consumers[id].retransmittedCounter < max
        /\ Return(id, ReceiveNack([Call(id) EXCEPT !.o.nack = items], items, 1))

\* The Room is called.
RoomCall ==
    [room |-> room, cs |-> consumers, o |-> NoOut(0), aborted |-> FALSE,
     rooms |-> rooms]

\* The state after a call of the Room that ended in room call state rs.
RoomReturn(rs) ==
    /\ 1 \in rooms
    /\ consumers' = rs.cs
    /\ out' = rs.o
    /\ aborted' = rs.aborted
    /\ room' = rs.room
    /\ rooms' = rs.rooms
    /\ UNCHANGED <<lastSent, lastNotified, packets, clock, lastRtcp, loop, vp8, sender>>

\* The ids no object has had yet.
FreeIds == DOMAIN consumers \ (room.rtpSenders \cup room.closed)

\* The ids of the next n objects: an id names an object and nothing depends
\* on which one it is, so new objects take the lowest ids not yet used.
NewIds(n) == {id \in FreeIds : Cardinality({f \in FreeIds : f < id}) < n}

onPeerRtpReceiverParametersDoneCall ==
    \E rtpReceiver \in Receivers,
       created \in {NewIds(n) : n \in 0..Cardinality(FreeIds)} :
    \E order \in Orders(room.mapRtpReceiverRtpSenders[rtpReceiver].rtpSenders) :
        /\ ~aborted
        /\ RoomReturn(onPeerRtpReceiverParametersDone(RoomCall, rtpReceiver,
                                                      created, order))

\* The RtpReceivers that have parameters are those in the map.
onPeerCapabilitiesCall ==
    LET ready == {r \in Receivers : room.mapRtpReceiverRtpSenders[r].present}
    IN  \E created \in [ready -> NewIds(Cardinality(ready))] :
            /\ ~aborted
            /\ ready # {}
            /\ \A r1, r2 \in ready : r1 < r2 => created[r1] < created[r2]
            /\ RoomReturn(onPeerCapabilities(RoomCall, created))

\* The Peers a request can name in the Room of two Peers.
RoomPeers == {1, 2}

\* room_createPeer for one of RoomPeers.
CreatePeerCall ==
    \E peerId \in RoomPeers :
        /\ ~aborted
        /\ peerId \notin room.peers
        /\ RoomReturn(RoomHandleRequest(RoomCall, "room_createPeer", peerId,
                                        TRUE, TRUE, <<>>))

\* peer_setCapabilities for a Peer that has none yet.
PeerSetCapabilitiesCall ==
    \E peer \in room.peers \ room.hasCapabilities :
        LET ready == ReadyRtpReceivers(RoomCall)
        IN  \E created \in [ready -> NewIds(Cardinality(ready))] :
                /\ ~aborted
                /\ \A r1, r2 \in ready : r1 < r2 => created[r1] < created[r2]
                /\ RoomReturn(PeerSetCapabilities(RoomCall, peer, created))

\* rtpReceiver_receive for an RtpReceiver of a Peer of the Room.
PeerRtpReceiverParametersDoneCall ==
    \E peer \in room.peers :
    \E rtpReceiver \in GetRtpReceivers(peer) :
    \E order \in Orders(room.mapRtpReceiverRtpSenders[rtpReceiver].rtpSenders) :
        LET sender_peers == IF room.mapRtpReceiverRtpSenders[rtpReceiver].present
                            THEN {} ELSE SenderPeers(RoomCall, peer)
        IN  \E created \in [sender_peers -> NewIds(Cardinality(sender_peers))] :
                /\ ~aborted
                /\ \A p1, p2 \in sender_peers : p1 < p2 => created[p1] < created[p2]
                /\ RoomReturn(PeerRtpReceiverParametersDone(
                                  RoomCall, peer, rtpReceiver, created, order))

onPeerRtpReceiverClosedCall ==
    \E rtpReceiver \in Receivers :
    \E order \in Orders(room.mapRtpReceiverRtpSenders[rtpReceiver].rtpSenders) :
        /\ ~aborted
        /\ room.mapRtpReceiverRtpSenders[rtpReceiver].present
        /\ RoomReturn(onPeerRtpReceiverClosed(RoomCall, rtpReceiver, order))

DestroyCall ==
    \E id \in room.rtpSenders :
        /\ ~aborted
        /\ RoomReturn(Destroy(RoomCall, id))

\* The methods named in requests: those a handler knows, and some of those
\* of other handlers.
ConsumerMethodInputs == {"CONSUMER_DUMP", "room_dump", "createRoom"}
RoomMethodInputs ==
    {"room_close", "room_dump", "room_createPeer", "peer_dump", "CONSUMER_DUMP",
     "createRoom"}
LoopMethodInputs ==
    {"updateSettings", "createRoom", "closeRoom", "createPeer", "closePeer",
     "room_dump", "CONSUMER_DUMP"}

RoomIds == {1, 2}
PeerIds == {1, 2}

\* A request for Consumer id arrives.
ConsumerRequest ==
    \E id \in DOMAIN consumers, methodId \in ConsumerMethodInputs :
        /\ ~aborted
        /\ loop.channel = 0
        /\ Return(id, HandleRequest(
                          [Call(id) EXCEPT !.o.request =
                              [handler |-> "Consumer", methodId |-> methodId]],
                          methodId))

\* A request for the Room arrives.
RoomRequest ==
    \E methodId \in RoomMethodInputs, peerId \in {0} \cup PeerIds,
       named \in BOOLEAN, answer \in BOOLEAN, order \in Orders(room.rtpSenders) :
        /\ ~aborted
        /\ loop.channel = 0
        /\ RoomReturn(RoomHandleRequest(
                          [RoomCall EXCEPT !.o.request =
                              [handler |-> "Room", methodId |-> methodId,
                               peerId |-> peerId, named |-> named]],
                          methodId, peerId, named, answer, order))

\* A request for the worker arrives.
LoopRequest ==
    \E methodId \in LoopMethodInputs, roomId \in {0} \cup RoomIds,
       throws \in BOOLEAN, answer \in BOOLEAN, order \in Orders(room.rtpSenders) :
        /\ ~aborted
        /\ loop.channel = 0
        /\ LET rs == onChannelRequest(
                          [RoomCall EXCEPT !.o.request =
                              [handler |-> "Loop", methodId |-> methodId,
                               roomId |-> roomId]],
                          methodId, roomId, throws, answer, order)
           IN  /\ consumers' = rs.cs
               /\ out' = rs.o
               /\ aborted' = rs.aborted
               /\ room' = rs.room
               /\ rooms' = rs.rooms
               /\ UNCHANGED <<lastSent, lastNotified, packets, clock, lastRtcp,
                              loop, vp8, sender>>

\* A codec of data.mediaCodecs: payloadType 0 without hasPayloadType is a
\* codec given without a payload type.
MediaCodec(mime, payloadType) ==
    [mime |-> mime, payloadType |-> payloadType,
     hasPayloadType |-> payloadType # 0]

\* The codecs given to a Room: up to max codecs with or without a payload
\* type, dynamic or not, followed by nothing or by as many codecs as there
\* are dynamic payload types, or one more, all alike.
MediaCodecsInputs(max) ==
    LET codec  == {MediaCodec(mime, pt) : mime \in {"opus", "VP8"},
                                          pt \in {0, 8, 100}}
        few    == UNION {[1..n -> codec] : n \in 0..max}
        alike  == {[n \in 1..k |-> MediaCodec("H264", pt)] :
                      k \in {Len(dynamicPayloadTypes),
                             Len(dynamicPayloadTypes) + 1},
                      pt \in {0, 100}}
    IN  {a \o b : a \in few, b \in {<<>>} \cup alike}

\* createRoom for Room 1 with data.mediaCodecs.
CreateRoomCall(max) ==
    \E mediaCodecs \in MediaCodecsInputs(max) :
        LET r  == Room(mediaCodecs)
            rs == onChannelRequest(
                      [RoomCall EXCEPT !.o.request =
                          [handler |-> "Loop", methodId |-> "createRoom",
                           roomId |-> 1]],
                      "createRoom", 1, r.error # "", TRUE, <<>>)
        IN  /\ ~aborted
            /\ 1 \notin rooms
            /\ consumers' = rs.cs
            /\ out' = [rs.o EXCEPT !.error = r.error]
            /\ aborted' = rs.aborted
            /\ room' = IF r.error = ""
                       THEN [r.room EXCEPT !.closed = rs.room.closed]
                       ELSE rs.room
            /\ rooms' = rs.rooms
            /\ UNCHANGED <<lastSent, lastNotified, packets, clock, lastRtcp,
                           loop, vp8, sender>>

\* closeRoom for Room 1.
CloseRoomCall ==
    \E order \in Orders(room.rtpSenders) :
        LET rs == onChannelRequest(
                      [RoomCall EXCEPT !.o.request =
                          [handler |-> "Loop", methodId |-> "closeRoom",
                           roomId |-> 1]],
                      "closeRoom", 1, FALSE, TRUE, order)
        IN  /\ ~aborted
            /\ 1 \in rooms
            /\ consumers' = rs.cs
            /\ out' = rs.o
            /\ aborted' = rs.aborted
            /\ room' = rs.room
            /\ rooms' = rs.rooms
            /\ UNCHANGED <<lastSent, lastNotified, packets, clock, lastRtcp,
                           loop, vp8, sender>>

\* The Loop is called.
LoopCall == [rs |-> RoomCall, loop |-> loop]

\* The state after a call of the Loop that ended in loop call state ls.
LoopReturn(ls) ==
    /\ consumers' = ls.rs.cs
    /\ out' = ls.rs.o
    /\ aborted' = ls.rs.aborted
    /\ room' = ls.rs.room
    /\ rooms' = ls.rs.rooms
    /\ loop' = [ls.loop EXCEPT !.triggers = @ + 1]
    /\ UNCHANGED <<lastSent, lastNotified, packets, clock, lastRtcp, vp8, sender>>

\* The signals the process can be sent.
SignumInputs == {"SIGINT", "SIGTERM", "SIGHUP"}

\* A signal arrives.
onSignalCall(max) ==
    \E signum \in SignumInputs, order \in Orders(room.rtpSenders) :
        /\ ~aborted
        /\ loop.triggers < max
        /\ LoopReturn(onSignal(LoopCall, signum, order))

\* The remote side closes the channel.
onChannelUnixStreamSocketRemotelyClosedCall(max) ==
    \E order \in Orders(room.rtpSenders) :
        /\ ~aborted
        /\ loop.triggers < max
        /\ LoopReturn(onChannelUnixStreamSocketRemotelyClosed(LoopCall, order))

\* The header of the last packet of consumer id in sent, else old.  pkt is
\* the packet as the producer sent it, synced whether the delivery took a
\* sync step.
LastSentOf(id, sent, old, pkt, synced) ==
    LET mine == {i \in 1..Len(sent) : sent[i].id = id}
    IN  IF mine = {}
        THEN [old EXCEPT !.synced = @ \/ (old.valid /\ synced),
                         !.dropped = old.valid]
        ELSE [valid |-> TRUE, ssrc |-> sent[Max(mine)].pkt.ssrc,
              seq |-> sent[Max(mine)].pkt.seq, ts |-> sent[Max(mine)].pkt.ts,
              recvSeq |-> pkt.seq, recvTs |-> pkt.ts, synced |-> FALSE,
              dropped |-> FALSE,
              chained |-> old.valid /\ ~old.synced /\ ~synced,
              gap |-> old.dropped]

\* Packet pkt of rtpReceiver arrives and is fanned out to the subscribed
\* Consumers.  The caller guarantees that rtpReceiver is in the map (MS_ASSERT).
\* The payload descriptors VP8::Parse can hand to Process.
PictureIds == {1, 2}
Tl0PictureIndexes == {1}
TemporalLayers == 0 .. 2

PayloadDescriptorInputs ==
    {PayloadDescriptor(i, l, t, pictureId, tl0PictureIndex, tlIndex, y, k) :
        i \in BOOLEAN, l \in BOOLEAN, t \in BOOLEAN,
        pictureId \in PictureIds, tl0PictureIndex \in Tl0PictureIndexes,
        tlIndex \in TemporalLayers \cap (0 .. MaxTlIndex),
        y \in BOOLEAN, k \in BOOLEAN}

\* One packet is processed with the context.  The history keeps the
\* descriptor, the target and the current layer at the call, whether the
\* pictureId was higher than every one seen, and the result.
ProcessCall(max) ==
    \E d \in PayloadDescriptorInputs :
        LET r == Process(vp8.context, d)
        IN  /\ ~aborted
            /\ vp8.calls < max
            /\ vp8' = [context |-> r.context,
                       calls   |-> vp8.calls + 1,
                       last    |-> [valid  |-> TRUE,
                                    d      |-> d,
                                    target |-> vp8.context.targetTemporalLayer,
                                    current |->
                                        vp8.context.currentTemporalLayer,
                                    higher |->
                                        \/ /\ vp8.context.syncRequired
                                           /\ d.hasPictureId
                                           /\ d.hasTl0PictureIndex
                                        \/ IsSeqHigherThan(
                                             d.pictureId,
                                             vp8.context.pictureIdManager.maxInput,
                                             W16),
                                    result |-> r.result,
                                    payload |-> <<>>, data |-> <<>>,
                                    processed |-> <<>>, restored |-> <<>>],
                       sent    |-> vp8.sent]
            /\ UNCHANGED <<consumers, out, lastSent, lastNotified, packets,
                           aborted, room, clock, lastRtcp, rooms, loop, sender>>

\* One packet's payload goes the way of a packet through a Consumer:
\* ProcessRtpPacket when it arrives, Process before it is sent and Restore
\* after.  The history keeps the payload at each point and, for a packet
\* sent with a remapped descriptor, what a receiver parses from it.
ProcessRtpPacketCall(payloads, max) ==
    \E payload \in payloads :
        LET p == ProcessRtpPacket(payload)
            d == p.handler
            r == IF d.valid
                 THEN Process(vp8.context, d)
                 ELSE [context |-> vp8.context, result |-> FALSE,
                       encoded |-> <<>>]
            processed == IF r.encoded # <<>>
                         THEN Encode(d, p.data, r.encoded[1], r.encoded[2])
                         ELSE p.data
            restored == IF d.valid
                        THEN HandlerRestore(d, processed)
                        ELSE processed
        IN  /\ ~aborted
            /\ vp8.calls < max
            /\ vp8' = [context |-> r.context,
                       calls   |-> vp8.calls + 1,
                       last    |-> [valid  |-> d.valid,
                                    d      |-> d,
                                    target |-> vp8.context.targetTemporalLayer,
                                    current |->
                                        vp8.context.currentTemporalLayer,
                                    higher |->
                                        \/ /\ vp8.context.syncRequired
                                           /\ d.hasPictureId
                                           /\ d.hasTl0PictureIndex
                                        \/ IsSeqHigherThan(
                                             d.pictureId,
                                             vp8.context.pictureIdManager.maxInput,
                                             W16),
                                    result |-> r.result,
                                    payload |-> payload,
                                    data |-> p.data,
                                    processed |-> processed,
                                    restored |-> restored],
                       sent    |-> IF r.result /\ r.encoded # <<>>
                                   THEN Append(vp8.sent,
                                               [d |-> d,
                                                written |-> Parse(processed)])
                                   ELSE vp8.sent]
            /\ UNCHANGED <<consumers, out, lastSent, lastNotified, packets,
                           aborted, room, clock, lastRtcp, rooms, loop, sender>>

\* The width of the pictureId field of the two-byte form.
W15 == 2 ^ 15

\* The payload of a packet that is no key frame, with a two-byte pictureId,
\* a tl0PictureIndex and a tlIndex.
Vp8Payload(pictureId, tl0PictureIndex, tlIndex, y) ==
    <<128 + 16, 128 + 64 + 32, 128 + pictureId \div 256, pictureId % 256,
      tl0PictureIndex, tlIndex * 64 + (IF y THEN 32 ELSE 0), 1>>

\* The pictures that can follow the last one in a stream sent in order, one
\* packet a picture: the next pictureId, in the base layer with the next
\* tl0PictureIndex or in layer 1 with the same one.  The stream starts
\* two pictures before the pictureId wraps.
FirstPictureId == W15 - 2

NextPictures ==
    LET pictureId == IF vp8.calls = 0 THEN FirstPictureId
                     ELSE (vp8.last.d.pictureId + 1) % W15
        tl0       == IF vp8.calls = 0 THEN W8 - 1
                     ELSE vp8.last.d.tl0PictureIndex
    IN  {Vp8Payload(pictureId, (tl0 + 1) % W8, 0, y) : y \in BOOLEAN}
            \cup {Vp8Payload(pictureId, tl0, 1, y) : y \in BOOLEAN}

\* The bytes of a payload with the given bits of the descriptor.
DescriptorBytes(x, i, l, t, k, two, pictureId, tl0PictureIndex, tlIndex) ==
    <<(IF x THEN 128 ELSE 0) + 16,
      (IF i THEN 128 ELSE 0) + (IF l THEN 64 ELSE 0)
          + (IF t THEN 32 ELSE 0) + (IF k THEN 16 ELSE 0)>>
    \o (IF ~i THEN <<>>
        ELSE IF two THEN <<128 + pictureId \div 256, pictureId % 256>>
        ELSE <<pictureId>>)
    \o (IF l THEN <<tl0PictureIndex>> ELSE <<>>)
    \o (IF t \/ k THEN <<tlIndex * 64 + 32 + 5>> ELSE <<>>)
    \o <<1>>

\* Payloads of two pictures that follow each other: the first in layer 1
\* with every field, the second in layer 0 with every combination of the
\* I, L, T and K bits; each with a one-byte or a two-byte pictureId.  With
\* them every prefix of the first picture's payloads, and a payload whose
\* descriptor is not extended.
BytePayloads ==
    LET first  == {DescriptorBytes(TRUE, TRUE, TRUE, TRUE, FALSE, two,
                                   IF two THEN 300 ELSE 44, 7, 1) :
                      two \in BOOLEAN}
        second == {DescriptorBytes(TRUE, i, l, t, k, two,
                                   IF two THEN 301 ELSE 45, 8, 0) :
                      i \in BOOLEAN, l \in BOOLEAN, t \in BOOLEAN,
                      k \in BOOLEAN, two \in BOOLEAN}
        plain  == DescriptorBytes(FALSE, TRUE, TRUE, TRUE, FALSE, TRUE,
                                  301, 8, 0)
    IN  second \cup {plain}
            \cup UNION {{SubSeq(data, 1, n) : n \in 0 .. Len(data)} :
                           data \in first}

\* The capabilities of the Peer of the RtpSender: it supports VP8 only.
PeerCapabilities == {"VP8"}

\* RTP parameters of a source: one or two codecs with different payload
\* types, and one or two encodings that name payload types.
SendInputs ==
    LET Codec(pt, mime) == [payloadType |-> pt, mime |-> mime,
                            clockRate |-> 90000]
        codec     == {Codec(pt, mime) : pt \in {100, 101},
                                        mime \in {"VP8", "H264"}}
        codecs    == {<<c>> : c \in codec}
                         \cup {p \in {<<c1, c2>> : c1 \in codec, c2 \in codec} :
                                   p[1].payloadType # p[2].payloadType}
        encoding  == {[codecPayloadType |-> pt] : pt \in {100, 101}}
        encodings == {<<e>> : e \in encoding}
                         \cup {<<e1, e2>> : e1 \in encoding, e2 \in encoding}
    IN  {[codecs |-> c, encodings |-> e] : c \in codecs, e \in encodings}

\* rtpSender->Send(rtpReceiver->GetParameters())
SendCall(max) ==
    \E rtpParameters \in SendInputs :
        LET r == Send(sender, PeerCapabilities, rtpParameters)
        IN  /\ ~aborted
            /\ sender.sends < max
            /\ sender' = r.s
            /\ aborted' = r.aborted
            /\ UNCHANGED <<consumers, out, lastSent, lastNotified, packets,
                           room, clock, lastRtcp, rooms, loop, vp8>>

SetTargetTemporalLayerCall ==
    \E target \in TemporalLayers :
        /\ ~aborted
        /\ target # vp8.context.targetTemporalLayer
        /\ vp8' = [vp8 EXCEPT !.context = SetTargetTemporalLayer(@, target)]
        /\ UNCHANGED <<consumers, out, lastSent, lastNotified, packets,
                       aborted, room, clock, lastRtcp, rooms, loop, sender>>

SyncRequiredCall ==
    /\ ~aborted
    /\ ~vp8.context.syncRequired
    /\ vp8' = [vp8 EXCEPT !.context = SyncRequired(@)]
    /\ UNCHANGED <<consumers, out, lastSent, lastNotified, packets,
                   aborted, room, clock, lastRtcp, rooms, loop, sender>>

FanOut(rtpReceiver, pkt, profile, now, order, accepted, max) ==
    /\ ~aborted
    /\ packets < max
    /\ room.mapRtpReceiverRtpSenders[rtpReceiver].present
    /\ LET r == onPeerRtpPacket(order,
                    [cs |-> consumers,
                     o |-> [NoOut(0) EXCEPT !.profile = profile, !.now = now,
                                            !.receiver = rtpReceiver],
                     pkt |-> pkt, aborted |-> FALSE],
                    pkt, profile, now, accepted)
       IN  /\ consumers' = r.cs
           /\ out' = [r.o EXCEPT !.id = 0]
           /\ aborted' = r.aborted
           /\ lastSent' = [id \in DOMAIN consumers |->
                              LastSentOf(id, r.o.sent, lastSent[id], pkt,
                                         consumers[id].syncRequired
                                             /\ ~r.cs[id].syncRequired)]
           /\ packets' = packets + 1
           /\ UNCHANGED <<lastNotified, room, clock, lastRtcp, rooms, loop, vp8, sender>>

\* A packet out of pkts arrives, with a profile out of tags, at a time out
\* of nows; each stream accepts it or not.
OnProducerRtpPacket(pkts, tags, nows, max) ==
    \E rtpReceiver \in Receivers, pkt \in pkts, profile \in tags, now \in nows :
    \E order \in Orders(room.mapRtpReceiverRtpSenders[rtpReceiver].rtpSenders),
       accepted \in [room.mapRtpReceiverRtpSenders[rtpReceiver].rtpSenders -> BOOLEAN] :
        FanOut(rtpReceiver, pkt, profile, now, order, accepted, max)

\* The next packet of a producer that sends in order: sequence number,
\* timestamp and payload go up by one from packet to packet.
NextPacket ==
    [ssrc |-> 1000, seq |-> packets % W16, ts |-> U32(0, packets % W16),
     pt |-> 100, payload |-> <<packets>>]

\* The next packet of a producer in order arrives; every stream accepts it.
OnProducerRtpPacketInOrder(max) ==
    \E rtpReceiver \in Receivers :
    \E order \in Orders(room.mapRtpReceiverRtpSenders[rtpReceiver].rtpSenders) :
        FanOut(rtpReceiver, NextPacket, NONE, U64(0, 0, 500), order,
               [id \in room.mapRtpReceiverRtpSenders[rtpReceiver].rtpSenders |-> TRUE],
               max)

----------------------------------------------------------------------------
(* Specifications.                                                         *)

\* The state after construction of the Consumers in born (id -> Consumer),
\* all of them subscribed to receiver 1.
InitConsumers(born) ==
    /\ consumers \in born
    /\ out = NoOut(0)
    /\ lastSent = [id \in DOMAIN consumers |-> NoHeader]
    /\ lastNotified = [id \in DOMAIN consumers |-> ""]
    /\ packets = 0
    /\ aborted = FALSE
    /\ clock = U64(0, 0, 0)
    /\ lastRtcp = [id \in DOMAIN consumers |-> NoRtcp]
    /\ rooms = {1}
    /\ loop = NoLoop
    /\ vp8 = NoVp8
    /\ sender = NoRtpSender
    /\ room = [NoRoom EXCEPT
                  !.mapRtpReceiverRtpSenders[1] =
                      [present |-> TRUE, rtpSenders |-> DOMAIN consumers],
                  !.rtpSenders = DOMAIN consumers]

(* Spec: one Consumer; the forwarding of packets under Enable/Disable, the  *)
(* pause flags, a renegotiation of the source and the arrival of a profile. *)

Init ==
    InitConsumers([{1} -> {Consumer("video", s, y) :
                              s \in SeqNumInputs, y \in BOOLEAN}])

Next ==
    \/ EnableCall(RtpParametersInputs)
    \/ DisableCall
    \/ PauseCall
    \/ ResumeCall
    \/ SourcePauseCall
    \/ SourceResumeCall
    \/ SourceRtpParametersUpdatedCall
    \/ AddProfileCall({LOW})
    \/ OnProducerRtpPacket(PacketInputs, {NONE, LOW}, NowInputs, MaxPackets)

Spec == Init /\ [][Next]_vars

(* SpecProfile: one Consumer, audio or video; every change of the profiles  *)
(* and of the preference, with the Consumer enabled or not, paused or not,  *)
(* and its retransmission buffer empty or not.                              *)

InitProfile ==
    InitConsumers([{1} -> {Consumer(k, 65535, TRUE) : k \in Kinds}])

NextProfile ==
    \/ EnableCall({VideoParameters})
    \/ DisableCall
    \/ PauseCall
    \/ ResumeCall
    \/ AddProfileCall(ProfileInputs)
    \/ RemoveProfileCall(ProfileInputs)
    \/ SetPreferredProfileCall(Profiles)
    \/ OnProducerRtpPacket({PacketA}, {NONE, LOW, HIGH}, {U64(0, 0, 500)}, MaxProfilePackets)

SpecProfile == InitProfile /\ [][NextProfile]_vars

(* SpecRoom: two Consumers subscribed to one producer, until destroyed.     *)

InitRoom ==
    InitConsumers({[id \in {1, 2} |->
                      Consumer("video", IF id = 1 THEN 255 ELSE 65535, TRUE)]})

NextRoom ==
    \/ EnableCall(ValidRtpParameters)
    \/ PauseCall
    \/ ResumeCall
    \/ DestroyCall
    \/ OnProducerRtpPacket({PacketA, PacketB}, {NONE}, {U64(0, 0, 500)}, MaxRoomPackets)

SpecRoom == InitRoom /\ [][NextRoom]_vars

(* SpecNack: one Consumer, with and without NACK and RTX negotiated; the   *)
(* receiver reports packets as lost while packets are forwarded and the     *)
(* Consumer is paused and resumed.                                          *)

InitNack == InitConsumers({[id \in {1} |-> Consumer("video", 65535, TRUE)]})

NextNack ==
    \/ EnableCall(NackRtpParameters)
    \/ PauseCall
    \/ ResumeCall
    \/ ReceiveNackCall(FALSE, MaxRetransmitted)
    \/ OnProducerRtpPacket(PacketInputs, {NONE}, {U64(0, 0, 500)}, MaxNackPackets)

SpecNack == InitNack /\ [][NextNack]_vars

(* SpecRing: one Consumer with NACK and RTX negotiated is enabled before the *)
(* producer starts, is handed more packets in order than the ring holds,    *)
(* and is paused and resumed after them; the receiver reports as lost the   *)
(* oldest and the newest packets the ring can hold.                         *)

NextRing ==
    \/ (packets = 0 /\ EnableCall({VideoParameters}))
    \/ (packets = MaxRingPackets /\ PauseCall)
    \/ (packets = MaxRingPackets /\ ResumeCall)
    \/ ReceiveNackCall(TRUE, MaxRetransmitted)
    \/ OnProducerRtpPacketInOrder(MaxRingPackets)

SpecRing == InitNack /\ [][NextRing]_vars

(* SpecRtcp: one Consumer, audio or video, is enabled, disabled and asked   *)
(* for RTCP while time passes in steps just below and just at the interval. *)

InitRtcp == InitConsumers([{1} -> {Consumer(k, 65535, TRUE) : k \in {"audio", "video"}}])

NextRtcp ==
    \/ EnableCall({VideoParameters})
    \/ DisableCall
    \/ GetRtcpCall
    \/ Tick(TickInputs, MaxTime)

SpecRtcp == InitRtcp /\ [][NextRtcp]_vars

(* SpecRequest: requests arrive for the worker, for the Room and for its    *)
(* two Consumers, which are enabled and paused between them.                *)

NextRequest ==
    \/ EnableCall({VideoParameters})
    \/ PauseCall
    \/ ConsumerRequest
    \/ RoomRequest
    \/ LoopRequest

SpecRequest == InitRoom /\ [][NextRequest]_vars

(* SpecDelta: one Consumer is handed three packets, of its profile or of    *)
(* another, and is paused, resumed, disabled, enabled and told of a pause   *)
(* and of new parameters of the source between them.                        *)

NextDelta ==
    \/ EnableCall({VideoParameters})
    \/ DisableCall
    \/ PauseCall
    \/ ResumeCall
    \/ SourcePauseCall
    \/ SourceResumeCall
    \/ SourceRtpParametersUpdatedCall
    \/ OnProducerRtpPacket({PacketA, PacketB}, {NONE, LOW}, {U64(0, 0, 500)},
                           MaxDeltaPackets)

SpecDelta == InitNack /\ [][NextDelta]_vars

(* SpecVp8: one VP8 EncodingContext processes the packets of up to two      *)
(* pictures, with every combination of the optional fields of the payload  *)
(* descriptor, while its target temporal layer is changed and a new sync    *)
(* is asked for.                                                           *)

NextVp8 ==
    \/ ProcessCall(MaxVp8Packets)
    \/ SetTargetTemporalLayerCall
    \/ SyncRequiredCall

SpecVp8 == InitNack /\ [][NextVp8]_vars

(* SpecVp8Wrap: one VP8 EncodingContext processes the pictures of a stream  *)
(* sent in order, whose pictureId wraps, while its target temporal layer is *)
(* changed and a new sync is asked for.                                    *)

NextVp8Wrap ==
    \/ ProcessRtpPacketCall(NextPictures, MaxWrapPictures)
    \/ SetTargetTemporalLayerCall
    \/ SyncRequiredCall

SpecVp8Wrap == InitNack /\ [][NextVp8Wrap]_vars

(* SpecVp8Bytes: one VP8 EncodingContext processes payloads with every form *)
(* of the payload descriptor, whole and cut short.                         *)

NextVp8Bytes ==
    \/ ProcessRtpPacketCall(BytePayloads, MaxBytePayloads)
    \/ SetTargetTemporalLayerCall

SpecVp8Bytes == InitNack /\ [][NextVp8Bytes]_vars

(* SpecSend: an RtpSender of a Peer that supports one codec is given the    *)
(* parameters of its source, and then updated ones.                        *)

NextSend ==
    \/ SendCall(MaxSends)

SpecSend == InitNack /\ [][NextSend]_vars

(* SpecLoop: the worker with a Room of two Consumers is sent requests that  *)
(* create and close Rooms, then signals, and its channel is closed by the   *)
(* remote side, in any order.                                               *)

NextLoop ==
    \/ EnableCall({VideoParameters})
    \/ PauseCall
    \/ LoopRequest
    \/ onSignalCall(MaxTriggers)
    \/ onChannelUnixStreamSocketRemotelyClosedCall(MaxTriggers)

SpecLoop == InitRoom /\ [][NextLoop]_vars

(* SpecFanout: the Room with two RtpReceivers; consumer-side objects are    *)
(* created for them, handed packets and closed.                             *)

InitFanout ==
    /\ consumers = [id \in 1..MaxRtpSenders |-> Consumer("video", 255, TRUE)]
    /\ out = NoOut(0)
    /\ lastSent = [id \in DOMAIN consumers |-> NoHeader]
    /\ lastNotified = [id \in DOMAIN consumers |-> ""]
    /\ packets = 0
    /\ aborted = FALSE
    /\ clock = U64(0, 0, 0)
    /\ lastRtcp = [id \in DOMAIN consumers |-> NoRtcp]
    /\ rooms = {1}
    /\ loop = NoLoop
    /\ vp8 = NoVp8
    /\ sender = NoRtpSender
    /\ room = NoRoom

NextFanout ==
    \/ onPeerRtpReceiverParametersDoneCall
    \/ onPeerCapabilitiesCall
    \/ onPeerRtpReceiverClosedCall
    \/ DestroyCall
    \/ OnProducerRtpPacket({PacketA}, {NONE}, {U64(0, 0, 500)}, MaxFanoutPackets)

SpecFanout == InitFanout /\ [][NextFanout]_vars

(* SpecCapabilities: Room 1 is closed and created again with codecs.        *)

NextCapabilities ==
    \/ CreateRoomCall(MaxMediaCodecs)
    \/ CloseRoomCall

SpecCapabilities == InitFanout /\ [][NextCapabilities]_vars

(* SpecPeers: the Room with two Peers, each with one RtpReceiver; the Peers *)
(* are created, set their capabilities and their RtpReceivers get their     *)
(* parameters, in any order.                                                *)

NextPeers ==
    \/ CreatePeerCall
    \/ PeerSetCapabilitiesCall
    \/ PeerRtpReceiverParametersDoneCall
    \/ DestroyCall

SpecPeers == InitFanout /\ [][NextPeers]_vars

----------------------------------------------------------------------------
(* Properties.                                                             *)

\* The transport of Consumer id was handed a packet by the operation that
\* emitted o.
SentTo(o, id) == \E i \in 1..Len(o.sent) : o.sent[i].id = id

\* The packets the transport of Consumer id was handed.
SentPackets(o, id) ==
    LET F[i \in 0..Len(o.sent)] ==
            IF i = 0 THEN <<>>
            ELSE IF o.sent[i].id = id THEN Append(F[i - 1], o.sent[i].pkt)
            ELSE F[i - 1]
    IN  F[Len(o.sent)]

\* SendRtpPacket was called on Consumer id by the operation that emitted o.
Delivered(o, id) == \E i \in 1..Len(o.entry) : o.entry[i].id = id

\* The fields SendRtpPacket works on.
ForwardingState(c) ==
    <<c.seqNum, c.rtpTimestamp, c.lastRecvSeqNum, c.lastRecvRtpTimestamp,
      c.syncRequired, c.transmittedCounter>>

\* The SendRtpPacket calls of the last operation.
Deliveries == 1..Len(out.entry)

\* C1: SendRtpPacket hands a packet to the transport only if the Consumer is
\* Enabled (has a transport) and neither paused nor sourcePaused is set; when
\* it is not Enabled or a flag is set, nothing is sent and seqNum,
\* rtpTimestamp, lastRecvSeqNum, lastRecvRtpTimestamp, syncRequired and the
\* transmitted counter are unchanged.
C1_ForwardsOnlyWhenEnabledAndNotPaused ==
    \A i \in Deliveries :
        LET id == out.entry[i].id
            c  == out.entry[i].before
            d  == consumers[id]
        IN  /\ SentTo(out, id) =>
                  c.transport # NoTransport /\ ~c.paused /\ ~c.sourcePaused
            /\ (c.transport = NoTransport \/ c.paused \/ c.sourcePaused) =>
                  /\ ~SentTo(out, id)
                  /\ ForwardingState(d) = ForwardingState(c)

\* A packet that passes the filters was delivered to an Enabled Consumer
\* with sourcePaused set, and nothing was sent.
C1_Witness ==
    /\ Delivered(out, 1)
    /\ out.entry[1].before.transport # NoTransport
    /\ out.entry[1].before.sourcePaused
    /\ ~out.entry[1].before.paused
    /\ out.entry[1].pkt.pt \in out.entry[1].before.supportedCodecPayloadTypes
    /\ out.profile = out.entry[1].before.effectiveProfile
    /\ out.sent = <<>>

\* a is newer than b in RFC 1982 serial-number arithmetic on 16 bits.
IsHigher16(a, b) == Sub16(a, b) \in 1..(W16 \div 2 - 1)

\* a is b or newer than b in serial-number arithmetic on 32 bits.
NotLower32(a, b) == Sub32(a, b)[1] < W16 \div 2

\* C2: the sequence numbers of the packets a Consumer emits are strictly
\* increasing modulo 2^16 and the emitted RTP timestamps non-decreasing modulo
\* 2^32, over the whole lifetime of the Consumer.
C2_EmittedMonotonic ==
    [][\A id \in DOMAIN consumers :
          SentTo(out', id) /\ packets' # packets /\ lastSent[id].valid =>
              /\ IsHigher16(lastSent'[id].seq, lastSent[id].seq)
              /\ NotLower32(lastSent'[id].ts, lastSent[id].ts)]_vars

\* C3: after RecalculateEffectiveProfile on a Consumer whose profiles are not
\* {NONE}, effectiveProfile is the greatest element of profiles when no
\* profile is preferred, else the greatest element of profiles that is not
\* above preferredProfile (stated where such an element exists).
C3_EffectiveIsGreatestNotAbovePreferred ==
    \A id \in DOMAIN consumers :
        LET c        == consumers[id]
            notAbove == {p \in c.profiles : p <= c.preferredProfile}
        IN  /\ out.recalculated /\ out.id = id
            /\ c.profiles # {NONE} /\ c.profiles # {}
            /\ c.preferredProfile # NONE => notAbove # {}
            =>
            /\ c.effectiveProfile \in c.profiles
            /\ c.preferredProfile = NONE => c.effectiveProfile = Max(c.profiles)
            /\ c.preferredProfile # NONE => c.effectiveProfile = Max(notAbove)

\* The operation changes effectiveProfile of Consumer id.
ProfileChanged(id) ==
    consumers'[id].effectiveProfile # consumers[id].effectiveProfile

\* C4 (as amended): when a call changes effectiveProfile, syncRequired is
\* true on return; if the Consumer is Enabled and not paused its
\* retransmission buffer is empty and, unless its kind is audio, each listener
\* got one full-frame request; if it is not Enabled or is paused, no full
\* frame is requested and the stream is left as it was.
C4_ProfileChangeResyncs ==
    [][\A id \in DOMAIN consumers :
          LET c == consumers[id]
              d == consumers'[id]
          IN  ProfileChanged(id) =>
                /\ d.syncRequired
                /\ IF d.transport # NoTransport /\ ~d.paused /\ ~d.sourcePaused
                   THEN /\ d.rtpStream.present
                        /\ d.rtpStream.buffer = <<>>
                        /\ Len(out'.fullFrameRequests) =
                              IF d.kind = "audio" THEN 0
                              ELSE Cardinality(d.listeners)
                   ELSE /\ out'.fullFrameRequests = <<>>
                        /\ d.rtpStream = c.rtpStream]_vars

\* The profile of an Enabled, unpaused video Consumer that has emitted a
\* packet changed: a full frame was requested and the buffer is empty.
C4_Witness ==
    /\ out.recalculated
    /\ out.events # <<>>
    /\ consumers[1].kind = "video"
    /\ consumers[1].transport # NoTransport
    /\ ~consumers[1].paused
    /\ consumers[1].transmittedCounter > 0
    /\ consumers[1].rtpStream.buffer = <<>>
    /\ out.fullFrameRequests # <<>>
    /\ consumers[1].syncRequired

\* C4 as claimed: whenever a call changes effectiveProfile, on return the
\* retransmission buffer is empty, a full frame has been requested from the
\* listeners, and syncRequired is true.
C4_Original ==
    [][\A id \in DOMAIN consumers :
          ProfileChanged(id) =>
              /\ consumers'[id].rtpStream.buffer = <<>>
              /\ out'.fullFrameRequests # <<>>
              /\ consumers'[id].syncRequired]_vars

\* The data of the "effectiveprofilechange" notifications in o.
ProfileChangeEvents(o) ==
    LET F[i \in 0..Len(o.events)] ==
            IF i = 0 THEN <<>>
            ELSE IF o.events[i].event = "effectiveprofilechange"
                 THEN Append(F[i - 1], o.events[i])
                 ELSE F[i - 1]
    IN  F[Len(o.events)]

\* C5: a Consumer emits "effectiveprofilechange" exactly when effectiveProfile
\* changes, with the new profile as data: a call that leaves effectiveProfile
\* unchanged emits none, and two consecutive notifications of a Consumer
\* never carry the same profile.
C5_NotifiesExactlyOnChange ==
    [][\A id \in DOMAIN consumers :
          LET d  == consumers'[id]
              ev == ProfileChangeEvents(out')
          IN  /\ ProfileChanged(id) =>
                    ev = <<[id |-> id, event |-> "effectiveprofilechange",
                            data |-> profile2String(d.effectiveProfile)]>>
              /\ ~ProfileChanged(id) => \A i \in 1..Len(ev) : ev[i].id # id
              /\ \A i \in 1..Len(ev) :
                    ev[i].id = id => ev[i].data # lastNotified[id]]_vars

\* A second notification of the Consumer: "low" after another profile.
C5_Witness ==
    /\ out.recalculated
    /\ ProfileChangeEvents(out) =
          <<[id |-> 1, event |-> "effectiveprofilechange", data |-> "low"]>>
    /\ consumers[1].effectiveProfile = LOW
    /\ HIGH \in consumers[1].profiles

\* The packet of delivery i passes the filters of SendRtpPacket.
PassesFilters(i) ==
    LET c == out.entry[i].before
    IN  /\ c.transport # NoTransport
        /\ ~c.paused /\ ~c.sourcePaused
        /\ out.entry[i].pkt.pt \in c.supportedCodecPayloadTypes
        /\ out.profile = c.effectiveProfile

Max32(a, b) == IF Gt32(a, b) THEN a ELSE b

\* C6: when SendRtpPacket forwards a packet while syncRequired is true, the
\* emitted sequence number is the previous seqNum + 1 (mod 2^16) whatever the
\* packet's sequence number, rtpTimestamp becomes the greater of its previous
\* value and the current time (as a uint32_t), and syncRequired is false
\* afterwards.
C6_SyncStep ==
    \A i \in Deliveries :
        LET id == out.entry[i].id
            c  == out.entry[i].before
            d  == consumers[id]
        IN  PassesFilters(i) /\ c.syncRequired =>
              /\ d.seqNum = Add16(c.seqNum, 1)
              /\ d.rtpTimestamp = Max32(c.rtpTimestamp, Uint32(out.now))
              /\ ~d.syncRequired
              /\ \A k \in 1..Len(out.sent) :
                    out.sent[k].id = id =>
                        /\ out.sent[k].pkt.seq = Add16(c.seqNum, 1)
                        /\ out.sent[k].pkt.ts = Max32(c.rtpTimestamp, Uint32(out.now))

\* A packet was emitted in a sync step although its sequence number is not
\* the successor of the last one received, at a time that is before the
\* Consumer's rtpTimestamp.
C6_Witness ==
    /\ Delivered(out, 1)
    /\ PassesFilters(1)
    /\ out.entry[1].before.syncRequired
    /\ Sub16(out.entry[1].pkt.seq, out.entry[1].before.lastRecvSeqNum) # 1
    /\ Gt32(out.entry[1].before.rtpTimestamp, Uint32(out.now))
    /\ SentTo(out, 1)

\* C7: on return from SendRtpPacket the borrowed packet has the SSRC,
\* sequence number and timestamp it had on entry, on every path; so in a
\* fan-out every Consumer is handed the packet with the producer's header.
C7_PacketRestored ==
    \A i \in 1..Len(out.exit) :
        /\ out.exit[i].pkt = out.entry[i].pkt
        /\ out.entry[i].pkt = out.entry[1].pkt

\* Two Consumers were handed the packet one after the other and each sent it
\* with its own SSRC and sequence number.
C7_Witness ==
    /\ Len(out.exit) = 2
    /\ Len(out.sent) = 2
    /\ out.sent[1].pkt.ssrc # out.entry[1].pkt.ssrc
    /\ out.sent[1].pkt.seq # out.entry[1].pkt.seq
    /\ out.sent[2].pkt.seq # out.sent[1].pkt.seq

\* C8: a packet whose payload type is not in supportedCodecPayloadTypes, or
\* whose profile is not effectiveProfile, is dropped: nothing is sent and the
\* Consumer, its RtpStreamSend included, is left unchanged.
C8_FilteredPacketDropped ==
    \A i \in Deliveries :
        LET id == out.entry[i].id
            c  == out.entry[i].before
        IN  \/ out.entry[i].pkt.pt \notin c.supportedCodecPayloadTypes
            \/ out.profile # c.effectiveProfile
            => ~SentTo(out, id) /\ consumers[id] = c

\* A packet of a supported payload type but of another profile was delivered
\* to an Enabled, unpaused Consumer, and dropped.
C8_Witness ==
    /\ Delivered(out, 1)
    /\ out.entry[1].before.transport # NoTransport
    /\ ~out.entry[1].before.paused /\ ~out.entry[1].before.sourcePaused
    /\ out.entry[1].pkt.pt \in out.entry[1].before.supportedCodecPayloadTypes
    /\ out.profile # out.entry[1].before.effectiveProfile
    /\ out.sent = <<>>

\* The payload types of the codecs of rtpParameters.
PayloadTypes(rtpParameters) ==
    {rtpParameters.codecs[i].payloadType : i \in 1..Len(rtpParameters.codecs)}

\* C9: supportedCodecPayloadTypes is a subset of the payload types of the
\* codecs of the Consumer's current rtpParameters.
C9_SupportedAreCodecs ==
    \A id \in DOMAIN consumers :
        consumers[id].supportedCodecPayloadTypes \subseteq
            PayloadTypes(consumers[id].rtpParameters)

\* A Consumer that sent a packet with the video parameters (ssrc 2000) is
\* now Enabled with the audio parameters.
C9_Witness ==
    /\ lastSent[1].valid
    /\ lastSent[1].ssrc = 2000
    /\ consumers[1].transport # NoTransport
    /\ consumers[1].rtpParameters = AudioParameters
    /\ consumers[1].supportedCodecPayloadTypes = {111}

InvalidRtpParameters == {EmptyEncodingsParameters, ZeroSsrcParameters}

\* C11: Enable with invalid rtpParameters (empty encodings, or
\* encodings[0].ssrc = 0) fails with an error and leaves the Consumer as it
\* was: in every reachable state, whatever the Consumer's state, the call
\* throws, sends and notifies nothing, and returns the Consumer unchanged; and
\* every step that ends in an error leaves all Consumers unchanged.
C11_InvalidEnableRejected ==
    [][/\ \A id \in DOMAIN consumers, transport \in Transports,
             rtpParameters \in InvalidRtpParameters :
              LET st == Enable(Call(id), transport, rtpParameters)
              IN  /\ st.o.error # ""
                  /\ st.c = consumers[id]
                  /\ ~st.aborted
                  /\ st.o = [NoOut(id) EXCEPT !.error = st.o.error]
       /\ out'.error # "" => consumers' = consumers /\ ~aborted']_vars

\* An Enable with empty encodings failed on a Consumer that is Enabled and
\* has emitted a packet: it still has its transport, its stream and its
\* counter.
C11_Witness ==
    /\ out.error = "invalid empty rtpParameters.encodings"
    /\ consumers[1].transport # NoTransport
    /\ consumers[1].rtpStream.present
    /\ consumers[1].rtpStream.buffer # <<>>
    /\ consumers[1].transmittedCounter > 0

\* Consumer d forwards every packet of a supported payload type and of its
\* effective profile that its stream accepts.
Forwards(id, d) ==
    \A pkt \in PacketInputs, now \in NowInputs :
        pkt.pt \in d.supportedCodecPayloadTypes =>
            SentTo(SendRtpPacket(CallState(d, NoOut(id), pkt),
                                 d.effectiveProfile, now, TRUE).o, id)

\* C12: when Resume (SourceResume) clears paused (sourcePaused) of an Enabled
\* video Consumer whose other pause flag is not set, each listener gets
\* exactly one full-frame request and packets arriving afterwards are
\* forwarded; if the other flag is set or the Consumer is not Enabled, no
\* full frame is requested.
C12_ResumeRequestsFullFrame ==
    [][\A id \in DOMAIN consumers :
          LET c == consumers[id]
              d == consumers'[id]
          IN  /\ d.kind = "video"
              /\ \/ c.paused /\ ~d.paused
                 \/ c.sourcePaused /\ ~d.sourcePaused
              =>
              IF d.transport # NoTransport /\ ~d.paused /\ ~d.sourcePaused
              THEN /\ out'.fullFrameRequests =
                          [i \in 1..Cardinality(d.listeners) |-> id]
                   /\ Forwards(id, d)
              ELSE out'.fullFrameRequests = <<>>]_vars

\* Resume cleared paused on an Enabled video Consumer that is not
\* sourcePaused and had emitted a packet: one full frame was requested.
C12_Witness ==
    /\ out.id = 1
    /\ out.fullFrameRequests = <<1>>
    /\ out.events = <<>>
    /\ ~out.recalculated
    /\ consumers[1].transport # NoTransport
    /\ ~consumers[1].paused /\ ~consumers[1].sourcePaused
    /\ lastSent[1].valid

\* The pause operations leave a call state whose flag already has the
\* target value exactly as it is.
Idempotent(id) ==
    LET c == consumers[id]
    IN  /\ c.paused => Pause(Call(id)) = Call(id)
        /\ ~c.paused => Resume(Call(id)) = Call(id)
        /\ c.sourcePaused => SourcePause(Call(id)) = Call(id)
        /\ ~c.sourcePaused => SourceResume(Call(id)) = Call(id)

\* The "sourcepaused" and "sourceresumed" notifications in o.
SourceEvents(o) ==
    LET F[i \in 0..Len(o.events)] ==
            IF i = 0 THEN <<>>
            ELSE IF o.events[i].event \in {"sourcepaused", "sourceresumed"}
                 THEN Append(F[i - 1], o.events[i])
                 ELSE F[i - 1]
    IN  F[Len(o.events)]

\* C13: Pause, Resume, SourcePause and SourceResume are idempotent (applied
\* where the flag already has the target value they change nothing, notify
\* nothing, clear nothing and request nothing), and "sourcepaused" /
\* "sourceresumed" is emitted exactly once per flip of sourcePaused to true /
\* to false, so that the two alternate, "sourcepaused" first.
C13_PauseOperationsIdempotent ==
    [][\A id \in DOMAIN consumers :
          LET c  == consumers[id]
              d  == consumers'[id]
              ev == SourceEvents(out')
          IN  /\ Idempotent(id)
              /\ ~c.sourcePaused /\ d.sourcePaused =>
                    ev = <<[id |-> id, event |-> "sourcepaused", data |-> ""]>>
              /\ c.sourcePaused /\ ~d.sourcePaused =>
                    ev = <<[id |-> id, event |-> "sourceresumed", data |-> ""]>>
              /\ c.sourcePaused = d.sourcePaused =>
                    \A i \in 1..Len(ev) : ev[i].id # id]_vars

\* SourceResume flipped sourcePaused of an Enabled Consumer back to false.
C13_Witness ==
    /\ SourceEvents(out) =
          <<[id |-> 1, event |-> "sourceresumed", data |-> ""]>>
    /\ ~consumers[1].sourcePaused
    /\ consumers[1].transport # NoTransport
    /\ lastSent[1].valid


\* The entries of the sequence log that are about id.
About(log, id) ==
    LET F[i \in 0..Len(log)] ==
            IF i = 0 THEN <<>>
            ELSE IF log[i].id = id THEN Append(F[i - 1], log[i]) ELSE F[i - 1]
    IN  F[Len(log)]

\* id is in no entry of the fan-out table of room state r.
Unlinked(r, id) ==
    \A rtpReceiver \in Receivers :
        id \notin r.mapRtpReceiverRtpSenders[rtpReceiver].rtpSenders

\* The operation said nothing through, and did nothing with, object id.
Silent(o, id) ==
    /\ About(o.events, id) = <<>>
    /\ About(o.sent, id) = <<>>
    /\ About(o.entry, id) = <<>>
    /\ About(o.closed, id) = <<>>

\* C14: Destroy of a Consumer tells each of its listeners once
\* (OnConsumerClosed), which unlinks it from the fan-out table, then emits
\* exactly one "close" for its id, and releases its RtpStreamSend; afterwards
\* the Consumer emits no notification and sends no packet.
C14_DestroyClosesOnce ==
    [][\A id \in DOMAIN consumers :
          /\ id \in room'.closed /\ id \notin room.closed /\ out'.receiver = 0 =>
                /\ About(out'.closed, id) =
                      [n \in 1..Cardinality(consumers[id].listeners) |->
                          [id |-> id, call |-> "OnConsumerClosed", after |-> 0]]
                /\ About(out'.events, id) =
                      <<[id |-> id, event |-> "close", data |-> ""]>>
                /\ ~consumers'[id].rtpStream.present
                /\ id \notin room'.rtpSenders
                /\ Unlinked(room', id)
                /\ ~aborted'
          /\ id \in room.closed => Silent(out', id) /\ id \in room'.closed]_vars

\* A Consumer that was subscribed and Enabled and had emitted a packet was
\* destroyed; another one is still subscribed and Enabled.
C14_Witness ==
    /\ out.id = 1
    /\ out.receiver = 0
    /\ 1 \in room.closed
    /\ lastSent[1].valid
    /\ About(out.closed, 1) # <<>>
    /\ room.mapRtpReceiverRtpSenders[1].rtpSenders = {2}
    /\ consumers[2].transport # NoTransport

\* The number of entries of the sequence log that are about id.
Count(log, id) == Len(About(log, id))

\* C15: closing an RtpReceiver closes every object subscribed to it in the
\* same step: each is closed exactly once and emits exactly one "close",
\* although each closure removes the object from the set in the map; after
\* the step the table has no entry for the receiver and none of the closed
\* objects is in it, and no later packet is handed to a closed object.
C15_ReceiverCloseClosesSubscribers ==
    [][/\ \A rtpReceiver \in Receivers :
             LET entry == room.mapRtpReceiverRtpSenders[rtpReceiver]
             IN  /\ entry.present
                 /\ ~room'.mapRtpReceiverRtpSenders[rtpReceiver].present
                 =>
                 /\ room'.closed = room.closed \cup entry.rtpSenders
                 /\ room'.rtpSenders = room.rtpSenders \ entry.rtpSenders
                 /\ \A id \in entry.rtpSenders :
                       /\ Count(out'.events, id) = 1
                       /\ Count(out'.closed, id) = 1
                       /\ Unlinked(room', id)
                 /\ \A id \in DOMAIN consumers \ entry.rtpSenders :
                       Count(out'.events, id) = 0
                 /\ room'.mapRtpReceiverRtpSenders[rtpReceiver].rtpSenders = {}
                 /\ ~aborted'
       /\ \A id \in room.closed : ~Delivered(out', id) /\ Unlinked(room', id)]_vars

\* An RtpReceiver with two subscribers was closed while the other one has a
\* subscriber: both were closed, the other's is still subscribed.
C15_Witness ==
    /\ out.receiver = 1
    /\ Len(out.closed) = 2
    /\ Len(out.events) = 2
    /\ ~room.mapRtpReceiverRtpSenders[1].present
    /\ room.mapRtpReceiverRtpSenders[2].rtpSenders # {}

----------------------------------------------------------------------------
(* C17 *)

\* What Consumer c retransmits when its receiver reports seq as lost: the
\* payloads as they were stored (behind the sequence number RTX puts in front).
Answer(c, seq) ==
    LET st == ReceiveNack(CallState(c, NoOut(0), NoPacket),
                          <<[packetId |-> seq, bitmask |-> 0]>>, 1)
    IN  [k \in 1..Len(st.o.sent) |->
            IF c.rtpStream.hasRtx THEN Tail(st.o.sent[k].pkt.payload)
                                  ELSE st.o.sent[k].pkt.payload]

\* The packets the step emitted to Consumer id for a packet of the producer.
EmittedTo(id) ==
    IF out'.nack # <<>> THEN {}
    ELSE {out'.sent[i].pkt : i \in {j \in 1..Len(out'.sent) : out'.sent[j].id = id}}

\* The sequence numbers looked at around the state c of a Consumer: the last
\* one emitted and its neighbours, and the two at the far end of a full ring.
NearWindow(c) ==
    {Sub16(c.seqNum, 1), c.seqNum, Add16(c.seqNum, 1),
     Sub16(c.seqNum, c.rtpStream.capacity),
     Sub16(c.seqNum, c.rtpStream.capacity - 1)}

\* C17: in every step, for a Consumer whose stream has capacity N: a packet
\* emitted in the step is retransmitted with the payload it was emitted with
\* when its sequence number is reported lost (N > 0); a sequence number not
\* emitted in the step is answered, if at all, as it was answered before the
\* step, so nothing is sent for one that was never emitted; an answer is lost
\* only when the ring was emptied or when the step emitted a packet into a
\* ring of N packets and no packet of the preceding sequence number was held,
\* and in that case it is lost; nothing is sent for any sequence number once
\* the Consumer is paused (the ring was cleared), or has no capacity.
C17_NackWithinWindowRetransmits ==
    [][\A id \in DOMAIN consumers :
         LET c       == consumers[id]
             d       == consumers'[id]
             emitted == EmittedTo(id)
             full    == Len(c.rtpStream.buffer) = c.rtpStream.capacity
         IN  \A seq \in NearWindow(c) \cup NearWindow(d) \cup {e.seq : e \in emitted} :
                LET before == Answer(c, seq)
                    after  == Answer(d, seq)
                    oldest == before # <<>> /\ Answer(c, Sub16(seq, 1)) = <<>>
                IN  /\ Len(after) <= 1
                    /\ \A e \in emitted :
                          e.seq = seq /\ d.rtpStream.capacity > 0
                              => after = <<e.payload>>
                    /\ (\A e \in emitted : e.seq # seq) /\ after # <<>>
                          => after = before
                    /\ before # <<>> /\ after = <<>>
                          => \/ d.rtpStream.buffer = <<>>
                             \/ emitted # {} /\ full /\ oldest
                    /\ emitted # {} /\ full /\ oldest /\ (\A e \in emitted : e.seq # seq)
                          => after = <<>>
                    /\ IsPaused(d) \/ d.rtpStream.capacity = 0 => after = <<>>
     ]_vars

\* A NACK packet named the sequence number overwritten by the last packet
\* emitted and the oldest one still in the full ring: one packet was sent, the
\* one of the second item, with the payload it was emitted with.
C17_Witness ==
    /\ Len(out.nack) = 2
    /\ out.id = 1
    /\ packets > consumers[1].rtpStream.capacity
    /\ Len(consumers[1].rtpStream.buffer) = consumers[1].rtpStream.capacity
    /\ out.nack[1].packetId = Sub16(consumers[1].seqNum, consumers[1].rtpStream.capacity)
    /\ Len(out.sent) = 1
    /\ out.sent[1].pkt.payload =
           <<out.nack[2].packetId, packets - consumers[1].rtpStream.capacity>>

----------------------------------------------------------------------------
(* C18 *)

\* The elements of a retransmission container before its first nullptr.
UntilNull(container) ==
    LET nulls == {i \in 1..Len(container) : container[i].null}
    IN  IF nulls = {} THEN container ELSE SubSeq(container, 1, Min(nulls) - 1)

RECURSIVE Flatten(_)
\* The concatenation of the sequences in seqs.
Flatten(seqs) == IF seqs = <<>> THEN <<>> ELSE Head(seqs) \o Flatten(Tail(seqs))

\* What RtpStreamSend returns for the items of a NACK packet received by
\* Consumer c, item after item.
Returned(c, items) ==
    Flatten([i \in 1..Len(items) |->
                UntilNull(RequestRtpRetransmission(
                    c.rtpStream, items[i].packetId, items[i].bitmask))])

\* Packet sent is the retransmission of packet stored by a stream with RTX.
IsRtxOf(stream, sent, stored) ==
    /\ sent.ssrc = stream.rtxSsrc
    /\ sent.pt = stream.rtxPayloadType
    /\ sent.payload = <<stored.seq>> \o stored.payload
    /\ sent.ts = stored.ts

\* C18: for every NACK packet an enabled Consumer can receive, each non-null
\* element RtpStreamSend returns for an item, up to the first nullptr and at
\* most 17 per item, makes exactly one packet go to the transport and the
\* retransmitted counter count one more, in the order of the elements; with
\* RTX the packet sent carries the RTX SSRC and payload type and the stored
\* sequence number in front of the stored payload, without RTX it is the
\* stored packet; the ring holds the same packets afterwards.
C18_RetransmitsEachReturnedEntry ==
    \A id \in DOMAIN consumers : \A items \in NackInputs(consumers[id]) :
        LET c        == consumers[id]
            st       == ReceiveNack(Call(id), items, 1)
            returned == Returned(c, items)
        IN  IsEnabled(c) =>
                /\ ~st.aborted
                /\ \A i \in 1..Len(items) :
                      Len(UntilNull(RequestRtpRetransmission(
                              c.rtpStream, items[i].packetId, items[i].bitmask)))
                          <= MaxRequestedPackets
                /\ Len(st.o.sent) = Len(returned)
                /\ st.c.retransmittedCounter = c.retransmittedCounter + Len(returned)
                /\ \A k \in 1..Len(returned) :
                      IF c.rtpStream.hasRtx
                      THEN IsRtxOf(c.rtpStream, st.o.sent[k].pkt, returned[k].pkt)
                      ELSE st.o.sent[k].pkt = returned[k].pkt
                /\ st.c.rtpStream.buffer = c.rtpStream.buffer

\* A NACK packet that names the same stored packet twice was answered with two
\* RTX packets that carry the same original sequence number.
C18_Witness ==
    /\ Len(out.nack) = 2
    /\ Len(out.sent) = 2
    /\ consumers[out.id].rtpStream.hasRtx
    /\ out.sent[1].pkt.ssrc = consumers[out.id].rtpStream.rtxSsrc
    /\ out.sent[1].pkt.payload = out.sent[2].pkt.payload
    /\ out.sent[1].pkt.seq # out.sent[2].pkt.seq

----------------------------------------------------------------------------
(* C19 *)

\* A time of the model in milliseconds.
Ms(t) == t[3]

\* Less than maxRtcpInterval / 1.15 milliseconds lie between times a and b.
CloserThanInterval(c, a, b) == (Ms(b) - Ms(a)) * 115 < c.maxRtcpInterval * 100

\* What GetRtcp does on an enabled Consumer at any time from now on: nothing
\* when less than maxRtcpInterval / 1.15 has passed since lastRtcpSentTime;
\* else, when the stream supplies a report, exactly one SR and one SDES chunk
\* with the CNAME, both with encodings[0].ssrc, and lastRtcpSentTime = now;
\* nothing when it supplies none.
GetRtcpAsSpecified ==
    \A id \in DOMAIN consumers, supplied \in BOOLEAN, d \in {0} \cup TickInputs :
        LET c   == consumers[id]
            now == Add64(clock, d)
            st  == GetRtcp([Call(id) EXCEPT !.o.now = now], now, supplied)
        IN  IsEnabled(c) =>
                /\ ~st.aborted
                /\ st.o.sent = <<>> /\ st.o.events = <<>>
                /\ IF CloserThanInterval(c, c.lastRtcpSentTime, now) \/ ~supplied
                   THEN st.o.rtcp = <<>> /\ st.c = c
                   ELSE /\ st.o.rtcp =
                              <<[type |-> "SR", ssrc |-> c.rtpParameters.encodings[1].ssrc,
                                 cname |-> ""],
                                [type |-> "SDES", ssrc |-> c.rtpParameters.encodings[1].ssrc,
                                 cname |-> c.rtpParameters.cname]>>
                        /\ st.c = [c EXCEPT !.lastRtcpSentTime = now]

----------------------------------------------------------------------------
(* C20 *)

\* The one answer to a request of an unknown method.
UnknownMethodRejected ==
    <<[accepted |-> FALSE, reason |-> "unknown method", after |-> 0]>>

\* The methods the handlers have a case for.
ConsumerMethodIds == {"CONSUMER_DUMP"}
RoomMethodIds == {"room_close", "room_dump", "room_createPeer"} \cup PeerMethodIds
LoopMethodIds == {"updateSettings", "createRoom", "closeRoom", "createPeer", "closePeer"}

\* The step handled a request that was rejected once with "unknown method",
\* and nothing else happened.
RejectedAsUnknown ==
    /\ out'.responses = UnknownMethodRejected
    /\ out'.events = <<>> /\ out'.sent = <<>> /\ out'.closed = <<>>
    /\ ~aborted'
    /\ consumers' = consumers
    /\ room' = room
    /\ rooms' = rooms

\* C20: a request whose method the handler that receives it does not know is
\* answered with exactly one rejection, of reason "unknown method", leaves the
\* Consumers, the Room and the Loop as they are and does not end the worker;
\* so for the handler of the Consumer, of the Room and of the Loop.
C20_UnknownMethodRejected ==
    [][/\ out'.request.handler = "Consumer"
              /\ out'.request.methodId \notin ConsumerMethodIds => RejectedAsUnknown
       /\ out'.request.handler = "Room"
              /\ out'.request.methodId \notin RoomMethodIds => RejectedAsUnknown
       /\ out'.request.handler = "Loop"
              /\ out'.request.methodId \notin LoopMethodIds => RejectedAsUnknown
      ]_vars

\* What holds of C20: the handlers of the Consumer and of the Room reject a
\* request of an unknown method once and leave everything as it is.
ConsumerAndRoomRejectUnknown ==
    [][/\ out'.request.handler = "Consumer"
              /\ out'.request.methodId \notin ConsumerMethodIds => RejectedAsUnknown
       /\ out'.request.handler = "Room"
              /\ out'.request.methodId \notin RoomMethodIds => RejectedAsUnknown
      ]_vars

----------------------------------------------------------------------------
(* C21 *)

\* The step handled a signal or the closure of the channel.
Triggered == loop'.triggers # loop.triggers

\* Times roomId occurs in a sequence of roomIds.
Times(log, roomId) == Cardinality({i \in 1..Len(log) : log[i] = roomId})

----------------------------------------------------------------------------
(* C22 *)

\* Consumer id was handed a packet before, took no sync step since, and is
\* handed one by this step that it forwards without a sync step.
ForwardedNext(id) ==
    /\ packets' # packets
    /\ SentTo(out', id)
    /\ lastSent[id].valid
    /\ ~lastSent[id].synced
    /\ ~consumers[id].syncRequired

\* C22: of two packets a Consumer forwards one after the other with no sync
\* step between them, the emitted sequence numbers differ by what the
\* producer's sequence numbers differ by (mod 2^16) and the emitted
\* timestamps by what the producer's timestamps differ by (mod 2^32),
\* whatever was dropped or done to the Consumer between them.
C22_DeltaPreserved ==
    [][\A id \in DOMAIN consumers :
          ForwardedNext(id) =>
              /\ Sub16(lastSent'[id].seq, lastSent[id].seq) =
                     Sub16(lastSent'[id].recvSeq, lastSent[id].recvSeq)
              /\ Sub32(lastSent'[id].ts, lastSent[id].ts) =
                     Sub32(lastSent'[id].recvTs, lastSent[id].recvTs)]_vars

\* The third packet of the producer was forwarded after the first, the
\* second having been dropped, and with no sync step after the first.
C22_Witness ==
    /\ packets = 3
    /\ SentTo(out, 1)
    /\ lastSent[1].chained
    /\ lastSent[1].gap
    /\ lastSent[1].recvSeq = PacketB.seq
    /\ lastSent[1].seq = 1

----------------------------------------------------------------------------
(* C23 *)

\* Packet pkt, tagged profile, passes the filters of SendRtpPacket on
\* Consumer c.
Passing(c, pkt, profile) ==
    /\ IsEnabled(c)
    /\ ~IsPaused(c)
    /\ pkt.pt \in c.supportedCodecPayloadTypes
    /\ profile = c.effectiveProfile

\* C23: in every reachable state of a live worker, SendRtpPacket with a
\* packet that passes the filters hands the packet to the transport once,
\* with the SSRC of encodings[0] and the Consumer's sequence number and
\* timestamp, and adds it to the transmitted counter, if the stream accepts
\* the packet; if the stream rejects it, nothing is sent and the counter
\* stays.  Either way the packet has the header it came with when the call
\* returns.
C23_SentIffAccepted ==
    \A id \in DOMAIN consumers, pkt \in PacketInputs, profile \in {NONE, LOW},
       now \in NowInputs, accepted \in BOOLEAN :
        LET c  == consumers[id]
            st == SendRtpPacket(CallState(c, NoOut(id), pkt), profile, now, accepted)
        IN  ~aborted /\ Passing(c, pkt, profile) =>
              /\ ~st.aborted
              /\ st.pkt = pkt
              /\ IF accepted
                 THEN /\ st.o.sent =
                           <<[id |-> id,
                              pkt |-> [pkt EXCEPT
                                         !.ssrc = c.rtpParameters.encodings[1].ssrc,
                                         !.seq = st.c.seqNum,
                                         !.ts = st.c.rtpTimestamp]]>>
                      /\ st.c.transmittedCounter = c.transmittedCounter + 1
                 ELSE /\ st.o.sent = <<>>
                      /\ st.c.transmittedCounter = c.transmittedCounter

\* A Consumer that has transmitted a packet was handed one that passed the
\* filters and that its stream rejected: nothing was sent, the counter is
\* what it was and the packet left with the header it came with.
C23_Witness ==
    /\ Delivered(out, 1)
    /\ PassesFilters(1)
    /\ ~SentTo(out, 1)
    /\ out.entry[1].before.transmittedCounter > 0
    /\ consumers[1].transmittedCounter = out.entry[1].before.transmittedCounter
    /\ consumers[1].seqNum # out.entry[1].before.seqNum
    /\ out.exit[1].pkt = out.entry[1].pkt

----------------------------------------------------------------------------
(* C24 *)

\* A NACK packet that reports as lost the packets Consumer c emitted last
\* makes the Consumer in call state st send nothing.
NothingRetransmitted(c, st) ==
    \A items \in NackInputs(c) :
        LET r == ReceiveNack([st EXCEPT !.o = NoOut(st.o.id)], items, 1)
        IN  r.o.sent = <<>> /\ r.c.retransmittedCounter = st.c.retransmittedCounter

\* C24: in every reachable state Disable leaves the Consumer without
\* transport, without RtpStreamSend and with no supported payload type, with
\* lastRtcpSentTime 0 and the two RTP counters 0, and changes no other field
\* (rtpParameters, paused, sourcePaused, profiles, preferredProfile,
\* effectiveProfile, seqNum and rtpTimestamp among them); it emits nothing.
\* No packet emitted before is retransmitted after it, and none after a
\* later Enable.  Enable with valid parameters on an Enabled Consumer does
\* what it does on the Consumer after Disable.
C24_DisableReleases ==
    \A id \in DOMAIN consumers :
        LET c  == consumers[id]
            st == Disable(Call(id))
        IN  /\ st.c = [c EXCEPT !.transport = NoTransport,
                                !.rtpStream = NoStream,
                                !.supportedCodecPayloadTypes = {},
                                !.lastRtcpSentTime = U64(0, 0, 0),
                                !.transmittedCounter = 0,
                                !.retransmittedCounter = 0]
            /\ <<st.c.rtpParameters, st.c.paused, st.c.sourcePaused, st.c.profiles,
                  st.c.preferredProfile, st.c.effectiveProfile, st.c.seqNum,
                  st.c.rtpTimestamp>> =
               <<c.rtpParameters, c.paused, c.sourcePaused, c.profiles,
                  c.preferredProfile, c.effectiveProfile, c.seqNum, c.rtpTimestamp>>
            /\ ~IsEnabled(st.c)
            /\ st.o = NoOut(id) /\ ~st.aborted
            /\ NothingRetransmitted(c, st)
            /\ \A transport \in Transports, rtpParameters \in ValidRtpParameters :
                  LET e == Enable(st, transport, rtpParameters)
                      f == Enable(Call(id), transport, rtpParameters)
                  IN  /\ NothingRetransmitted(c, e)
                      /\ IsEnabled(c) =>
                            f.c = e.c /\ f.o = e.o /\ f.aborted = e.aborted

\* A Consumer that emitted a packet and was paused is Disabled: it has no
\* transport, no stream and no supported payload type, and still its
\* parameters, its pause flag and the sequence number it emitted last.
C24_Witness ==
    /\ lastSent[1].valid
    /\ ~IsEnabled(consumers[1])
    /\ ~consumers[1].rtpStream.present
    /\ consumers[1].supportedCodecPayloadTypes = {}
    /\ consumers[1].rtpParameters = VideoParameters
    /\ consumers[1].paused
    /\ consumers[1].seqNum = lastSent[1].seq
    /\ consumers[1].transmittedCounter = 0

----------------------------------------------------------------------------
(* C25 *)

\* C25: in every reachable state of a live worker, a Consumer that is Enabled
\* and has paused or sourcePaused set has an empty retransmission buffer, and
\* a NACK packet it receives sends nothing to the transport and counts
\* nothing as retransmitted.
C25_PausedBufferEmpty ==
    ~aborted =>
        \A id \in DOMAIN consumers :
            LET c == consumers[id]
            IN  IsEnabled(c) /\ IsPaused(c) =>
                  /\ c.rtpStream.buffer = <<>>
                  /\ \A items \in NackInputs(c) :
                        LET st == ReceiveNack(Call(id), items, 1)
                        IN  /\ st.o.sent = <<>>
                            /\ st.c.retransmittedCounter = c.retransmittedCounter
                            /\ ~st.aborted

\* SourcePause was called on an Enabled Consumer that was not paused and
\* had emitted a packet that its stream, which has a buffer, had accepted.
C25_Witness ==
    /\ out.events = <<[id |-> 1, event |-> "sourcepaused", data |-> ""]>>
    /\ IsEnabled(consumers[1])
    /\ ~consumers[1].paused
    /\ consumers[1].sourcePaused
    /\ consumers[1].rtpStream.capacity > 0
    /\ consumers[1].transmittedCounter > 0
    /\ consumers[1].rtpStream.buffer = <<>>

----------------------------------------------------------------------------
(* C26 *)

\* The Consumers whose listeners may be asked for a full frame: those of the
\* given kinds that are Enabled and not paused.
MayRequestFullFrame(c, kinds) ==
    c.kind \in kinds /\ IsEnabled(c) /\ ~IsPaused(c)

\* Every full-frame request the last operation delivered, and every one an
\* explicit RequestFullFrame would deliver now, is of a Consumer of the
\* given kinds that is Enabled and not paused.
FullFrameOnlyFor(kinds) ==
    /\ \A i \in 1..Len(out.fullFrameRequests) :
          MayRequestFullFrame(consumers[out.fullFrameRequests[i]], kinds)
    /\ \A id \in DOMAIN consumers :
          RequestFullFrame(Call(id)).o.fullFrameRequests # <<>> =>
              MayRequestFullFrame(consumers[id], kinds)

\* C26: OnConsumerFullFrameRequired is delivered to the listeners of a
\* Consumer only if its kind is VIDEO and it is Enabled and not paused,
\* whether the request comes from Resume, SourceResume, a change of the
\* effective profile or an explicit RequestFullFrame.
C26_FullFrameOnlyForVideo == FullFrameOnlyFor({"video"})

\* What holds of C26: a Consumer of kind AUDIO, one that is not Enabled and
\* one that is paused deliver no full-frame request.
FullFrameNeverForAudio == FullFrameOnlyFor(Kinds \ {"audio"})

----------------------------------------------------------------------------
(* C27 *)

\* A Consumer whose effectiveProfile is NONE hands to its transport no packet
\* tagged with a profile of tags: none of those the producer delivered, and
\* none of those it could deliver now.
NoneDrops(tags) ==
    /\ \A i \in Deliveries :
          out.entry[i].before.effectiveProfile = NONE /\ out.profile \in tags =>
              ~SentTo(out, out.entry[i].id)
    /\ \A id \in DOMAIN consumers, pkt \in PacketInputs, profile \in tags,
           now \in NowInputs, accepted \in BOOLEAN :
          consumers[id].effectiveProfile = NONE =>
              SendRtpPacket(CallState(consumers[id], NoOut(id), pkt),
                            profile, now, accepted).o.sent = <<>>

\* C27: a Consumer whose effectiveProfile is NONE transmits no packet,
\* whatever the packet and whatever the profile it is tagged with.
C27_NoneTransmitsNothing == NoneDrops(Profiles)

\* What holds of C27: a Consumer whose effectiveProfile is NONE drops every
\* packet tagged with a profile other than NONE.
NoneDropsRealProfiles == NoneDrops(Profiles \ {NONE})

----------------------------------------------------------------------------
(* C28 *)

\* The iterator RecalculateEffectiveProfile dereferences on Consumer c is
\* past the end of its profiles: crbegin() of an empty set, or lower_bound
\* of a preferred profile above every element.
ReadsPastEnd(c) ==
    IF c.preferredProfile = NONE THEN c.profiles = {}
    ELSE \A p \in c.profiles : p < c.preferredProfile

\* C28: the profiles of a Consumer are never empty, and are {NONE} when no
\* real profile is among them; and after a call that recalculated the
\* effective profile, the iterator it read was not past the end and the
\* effective profile is an element of the set.
C28_ProfilesNeverEmpty ==
    \A id \in DOMAIN consumers :
        LET c == consumers[id]
        IN  /\ c.profiles # {}
            /\ c.profiles \cap (Profiles \ {NONE}) = {} => c.profiles = {NONE}
            /\ out.recalculated /\ out.id = id =>
                  ~ReadsPastEnd(c) /\ c.effectiveProfile \in c.profiles

\* What holds of C28: the profiles of a Consumer are {NONE} or do not
\* contain NONE.
ProfilesNoneOrReal ==
    \A id \in DOMAIN consumers :
        consumers[id].profiles = {NONE} \/ NONE \notin consumers[id].profiles

----------------------------------------------------------------------------
(* C29 *)

\* GetRtcp at the current time on Consumer id appends nothing, leaves the
\* Consumer as it is and does not end the worker.
GetRtcpDoesNothing(id) ==
    \A supplied \in BOOLEAN :
        LET st == GetRtcp([Call(id) EXCEPT !.o.now = clock], clock, supplied)
        IN  /\ st.o.rtcp = <<>>
            /\ st.c = consumers[id]
            /\ ~st.aborted

\* C29: in every reachable state, GetRtcp on a Consumer that is not Enabled
\* appends nothing to the compound packet and does not go through the
\* pointer to the released RtpStreamSend.
C29_GetRtcpWhenNotEnabled ==
    \A id \in DOMAIN consumers :
        ~IsEnabled(consumers[id]) => GetRtcpDoesNothing(id)

\* What holds of C29: GetRtcp on a Consumer that is not Enabled does nothing
\* as long as the time is closer to 0 than the RTCP interval of its kind.
GetRtcpWhenNotEnabledAndEarly ==
    \A id \in DOMAIN consumers :
        /\ ~IsEnabled(consumers[id])
        /\ TooEarly(clock, U64(0, 0, 0), consumers[id].maxRtcpInterval)
        => GetRtcpDoesNothing(id)

----------------------------------------------------------------------------
(* C30 *)

\* The last packet processed had a temporal layer above the target the
\* context had at the call.
AboveTarget == vp8.last.valid /\ vp8.last.d.tlIndex > vp8.last.target

\* Process refused the last packet and its pictureId and tl0PictureIndex
\* are dropped in both managers.
RefusedAndDropped ==
    /\ ~vp8.last.result
    /\ vp8.last.d.pictureId \in vp8.context.pictureIdManager.dropped
    /\ vp8.last.d.tl0PictureIndex \in vp8.context.tl0PictureIndexManager.dropped

\* C30: Process never accepts a packet above the target temporal layer:
\* for every packet whose tlIndex is greater than the context's
\* targetTemporalLayer, Process returns false and the packet's pictureId
\* and tl0PictureIndex are dropped in both managers, whatever the pictureId
\* is relative to the highest one seen and whatever target changes came
\* before.
C30_NeverAboveTarget == AboveTarget => RefusedAndDropped

\* What holds: a packet above the target that carries a pictureId, a
\* tl0PictureIndex and a tlIndex, and whose pictureId is higher than every
\* one seen since the last sync, is refused and dropped in both managers.
NewPictureNeverAboveTarget ==
    (/\ AboveTarget
     /\ vp8.last.d.hasPictureId
     /\ vp8.last.d.hasTl0PictureIndex
     /\ vp8.last.higher) => RefusedAndDropped

\* A packet above the target is never accepted with a pictureId that was
\* dropped: what Process accepts above the target are packets with no
\* pictureId or no tl0PictureIndex, and packets of a picture already seen.
AcceptedAboveTarget ==
    (AboveTarget /\ vp8.last.result) =>
        \/ ~vp8.last.d.hasPictureId
        \/ ~vp8.last.d.hasTl0PictureIndex
        \/ ~vp8.last.higher

----------------------------------------------------------------------------
(* C31 *)

\* The current layer the last packet was tested against: a key frame sets
\* it to the target before the test.
CurrentAtTest ==
    IF vp8.last.d.isKeyFrame THEN vp8.last.target ELSE vp8.last.current

\* The last packet asked for an upgrade of the layer without being a
\* layer-sync.
UpgradeWithoutSync ==
    /\ vp8.last.valid
    /\ vp8.last.d.tlIndex > CurrentAtTest
    /\ ~vp8.last.d.y

\* The last call raised the current temporal layer.
CurrentRaised ==
    vp8.last.valid /\ vp8.context.currentTemporalLayer > vp8.last.current

\* After a call that returned true the current layer is not above the
\* target.
CurrentNotAboveTarget ==
    (vp8.last.valid /\ vp8.last.result) =>
        vp8.context.currentTemporalLayer <= vp8.last.target

\* C31: the current temporal layer is raised only by a key frame (to the
\* target) or by an accepted packet that is a layer-sync (y = 1): a packet
\* with tlIndex greater than the current layer and y = 0 is dropped in both
\* managers and rejected, and after every call that returns true the
\* current layer is not above the target.
C31_RaisedOnlyByKeyFrameOrSync ==
    /\ UpgradeWithoutSync => RefusedAndDropped
    /\ CurrentRaised =>
          \/ /\ vp8.last.d.isKeyFrame
             /\ vp8.context.currentTemporalLayer = vp8.last.target
          \/ vp8.last.result /\ vp8.last.d.y
    /\ CurrentNotAboveTarget

\* What holds: a packet that asks for an upgrade without a layer-sync, that
\* carries pictureId and tl0PictureIndex and whose pictureId is higher than
\* every one seen, is refused and dropped in both managers.
NewPictureUpgradeNeedsSync ==
    (/\ UpgradeWithoutSync
     /\ vp8.last.d.hasPictureId
     /\ vp8.last.d.hasTl0PictureIndex
     /\ vp8.last.higher) => RefusedAndDropped

----------------------------------------------------------------------------
(* C32 *)

\* The pictureIds a receiver reads from consecutively sent pictures differ
\* by exactly 1 modulo 2^15.
PictureIdGapFree ==
    \A n \in 1 .. Len(vp8.sent) - 1 :
        vp8.sent[n + 1].d.pictureId # vp8.sent[n].d.pictureId =>
            vp8.sent[n + 1].written.pictureId
                = (vp8.sent[n].written.pictureId + 1) % W15

\* The tl0PictureIndex a receiver reads moves on by 1 modulo 2^8 where the
\* one of the source does, and stays where the one of the source stays.
Tl0PictureIndexGapFree ==
    \A n \in 1 .. Len(vp8.sent) - 1 :
        LET step == IF vp8.sent[n + 1].d.tl0PictureIndex
                          = vp8.sent[n].d.tl0PictureIndex
                    THEN 0 ELSE 1
        IN  vp8.sent[n + 1].written.tl0PictureIndex
                = (vp8.sent[n].written.tl0PictureIndex + step) % W8

\* What is written is a descriptor of the form of the source's.
WrittenFitsField ==
    \A n \in 1 .. Len(vp8.sent) :
        /\ vp8.sent[n].written.valid
        /\ vp8.sent[n].written.hasTwoBytesPictureId
        /\ vp8.sent[n].written.hasTl0PictureIndex
        /\ vp8.sent[n].written.tlIndex = vp8.sent[n].d.tlIndex

\* C32: for any sequence of VP8 packets passed through Process with any
\* pattern of temporal-layer drops, the rewritten pictureId and
\* tl0PictureIndex of consecutively accepted distinct pictures differ by
\* exactly 1 modulo the field width (15 bits, 8 bits): the output is
\* gap-free and strictly monotonic, also when the input pictureId wraps from
\* 32767 to 0, and the value written always fits the field.
C32_OutputGapFree ==
    /\ PictureIdGapFree
    /\ Tl0PictureIndexGapFree
    /\ WrittenFitsField

\* What holds: as long as the pictureId of the source has not wrapped, the
\* pictureIds a receiver reads are gap-free.
PictureIdGapFreeBeforeWrap ==
    (\A n \in 1 .. Len(vp8.sent) : vp8.sent[n].d.pictureId >= FirstPictureId)
        => PictureIdGapFree

----------------------------------------------------------------------------
(* C33 *)

\* C33: for every byte sequence on which Parse returns a descriptor, Encode
\* on that buffer with the descriptor's own pictureId and tl0PictureIndex
\* leaves the buffer byte-identical, for every combination of the I, L, T
\* and K flags and of the one-byte and two-byte pictureId forms.
C33_ParseEncodeRoundTrip ==
    \A data \in {vp8.last.payload, vp8.last.data, vp8.last.processed} :
        LET d == Parse(data)
        IN  d.valid => Encode(d, data, d.pictureId, d.tl0PictureIndex) = data

\* A payload with a one-byte pictureId, a tl0PictureIndex and a tlIndex was
\* parsed, made a two-byte one, and sent with a remapped pictureId.
C33_Witness ==
    /\ Parse(vp8.last.payload).hasOneBytePictureId
    /\ Parse(vp8.last.payload).hasTl0PictureIndex
    /\ Parse(vp8.last.payload).hasTlIndex
    /\ Parse(vp8.last.data).hasTwoBytesPictureId
    /\ vp8.last.result
    /\ Parse(vp8.last.processed).pictureId # vp8.last.d.pictureId

----------------------------------------------------------------------------
(* C34 *)

\* C34: Process followed by Restore on the same packet buffer leaves the
\* buffer identical to what it was before Process, whether Process returned
\* true, after writing the remapped pictureId and tl0PictureIndex, or false.
C34_ProcessRestore ==
    vp8.last.valid => vp8.last.restored = vp8.last.data

\* Process returned true and wrote a pictureId that is not the packet's.
C34_Witness ==
    /\ vp8.last.valid
    /\ vp8.last.result
    /\ vp8.last.processed # vp8.last.data
    /\ vp8.last.restored = vp8.last.data

----------------------------------------------------------------------------
(* C35 *)

\* The payload types of the codecs of the RtpSender's parameters.
CodecPayloadTypes ==
    {sender.rtpParameters.codecs[n].payloadType :
        n \in DOMAIN sender.rtpParameters.codecs}

\* C35: for any sequence of Send calls, whenever an encoding remains after
\* filtering, the codecPayloadType of the first remaining encoding is the
\* payload type of a codec that remained, so the abort is never reached;
\* equivalently supportedPayloadTypes holds only payload types of codecs of
\* the current parameters and never ones left over from an earlier Send.
C35_FirstEncodingHasCodec ==
    /\ ~aborted
    /\ sender.rtpParameters.encodings # <<>> =>
          sender.rtpParameters.encodings[1].codecPayloadType
              \in CodecPayloadTypes
    /\ sender.hasRtpParameters =>
          sender.supportedPayloadTypes \subseteq CodecPayloadTypes

\* What holds: after the first Send the first encoding has a codec and the
\* supported payload types are those of the codecs kept.
FirstSendHasCodec ==
    sender.sends = 1 =>
        /\ ~aborted
        /\ sender.rtpParameters.encodings # <<>> =>
              sender.rtpParameters.encodings[1].codecPayloadType
                  \in CodecPayloadTypes
        /\ sender.supportedPayloadTypes = CodecPayloadTypes

(* C36 *)

\* The Peers a consumer-side object is attached to.
PeersOf(rtpSender) == {a.peer : a \in {b \in room.attached : b.rtpSender = rtpSender}}

\* Some consumer-side object of Peer P is in the fan-out set of an
\* RtpReceiver of P.
ForwardedBack ==
    \E peer \in room.peers : \E r \in GetRtpReceivers(peer) :
    \E rtpSender \in room.mapRtpReceiverRtpSenders[r].rtpSenders :
        peer \in PeersOf(rtpSender)

\* C36: no RtpSender attached to a Peer P is in the fan-out set of an
\* RtpReceiver owned by P, whatever the order in which P sets its
\* capabilities and its RtpReceivers get their parameters.
C36_NeverForwardedBack == ~ForwardedBack

\* An object in the fan-out set of an RtpReceiver of its own Peer was made by
\* Room::onPeerCapabilities, never by Room::onPeerRtpReceiverParametersDone.
ForwardedBackOnlyByCapabilities ==
    \A a \in room.attached :
        (\E r \in GetRtpReceivers(a.peer) :
             a.rtpSender \in room.mapRtpReceiverRtpSenders[r].rtpSenders)
        => a.by = "onPeerCapabilities"

(* C37 *)

\* The payload types of the Room's capabilities are pairwise distinct.
DistinctPayloadTypes ==
    \A i, j \in DOMAIN room.capabilities :
        i # j => room.capabilities[i].payloadType # room.capabilities[j].payloadType

\* The Room was created by the last request, with the codecs given.
RoomCreated ==
    /\ out.request.methodId = "createRoom"
    /\ out.responses = <<[accepted |-> TRUE, reason |-> "", after |-> 0]>>

\* Each codec of the capabilities is the codec given at its place: with its
\* own payload type if it had one that no codec before it has, else with a
\* dynamic one that no codec before it has.
PayloadTypesAssigned ==
    /\ Len(room.capabilities) = Len(room.mediaCodecs)
    /\ \A n \in DOMAIN room.capabilities :
        LET given  == room.mediaCodecs[n]
            stored == room.capabilities[n]
            before == {room.capabilities[m].payloadType : m \in 1..(n - 1)}
        IN  /\ stored.mime = given.mime
            /\ stored.hasPayloadType
            /\ stored.payloadType \notin before
            /\ IF given.hasPayloadType /\ given.payloadType \notin before
               THEN stored.payloadType = given.payloadType
               ELSE \E k \in DOMAIN dynamicPayloadTypes :
                        stored.payloadType = dynamicPayloadTypes[k]

\* C37: Room::SetCapabilities either fails with an error or leaves the room
\* capabilities with pairwise distinct payload types: a codec given with a
\* payload type not yet used keeps it, every other codec gets an unused
\* dynamic payload type, and no duplicate is stored when none is left.
C37_DistinctPayloadTypes ==
    /\ DistinctPayloadTypes
    /\ RoomCreated => PayloadTypesAssigned

\* A Room given no more codecs than there are dynamic payload types has
\* capabilities as the claim says.
DistinctWhileDynamicLeft ==
    (RoomCreated /\ Len(room.mediaCodecs) <= Len(dynamicPayloadTypes))
        => (DistinctPayloadTypes /\ PayloadTypesAssigned)

\* A codec given without a payload type when no dynamic one is left is
\* refused with the error, and nothing of the Room is kept.
ThrowsWhenNoneGiven ==
    (out.request.methodId = "createRoom" /\ out.error # "")
        => /\ out.responses = <<[accepted |-> FALSE, reason |-> "", after |-> 0]>>
           /\ 1 \notin rooms

(* C38 *)

\* The step handled a createRoom or a closeRoom request of the worker.
RoomOfLoopRequested ==
    /\ out'.request.handler = "Loop"
    /\ out'.request.methodId \in {"createRoom", "closeRoom"}

\* The one response of the step is an acceptance.
AcceptedOnce == Len(out'.responses) = 1 /\ out'.responses[1].accepted

\* The one response of the step is a rejection.
RejectedOnce == Len(out'.responses) = 1 /\ ~out'.responses[1].accepted

\* The step closed the Room of the model: its Peers and its fan-out table
\* are gone and its "close" was emitted.
RoomClosedInStep ==
    /\ room'.peers = {}
    /\ room'.rtpSenders = {}
    /\ \A r \in Receivers : ~room'.mapRtpReceiverRtpSenders[r].present
    /\ Len(SelectSeq(out'.events,
                     LAMBDA e : e.id = 0 /\ e.event = "close" /\ e.data = "Room")) = 1

\* C38: every createRoom and closeRoom request gets exactly one response;
\* createRoom for an id in the rooms table, closeRoom for an id not in it and
\* either without a numeric roomId are rejected and leave the table as it is;
\* an accepted createRoom adds exactly that id, an accepted closeRoom closes
\* that Room and removes exactly that id.
C38_CreateAndCloseRoom ==
    [][RoomOfLoopRequested =>
          LET roomId == out'.request.roomId
              create == out'.request.methodId = "createRoom"
          IN  /\ ~aborted'
              /\ AcceptedOnce \/ RejectedOnce
              /\ (\/ roomId = 0
                  \/ create /\ roomId \in rooms
                  \/ ~create /\ roomId \notin rooms) => RejectedOnce
              /\ RejectedOnce => rooms' = rooms /\ room' = room
              /\ (AcceptedOnce /\ create) =>
                     /\ roomId \notin rooms
                     /\ rooms' = rooms \cup {roomId}
              /\ (AcceptedOnce /\ ~create) =>
                     /\ roomId \in rooms
                     /\ rooms' = rooms \ {roomId}
                     /\ roomId = 1 => RoomClosedInStep]_vars

\* Room 1, closed with its consumer-side objects, was created again: the
\* request was accepted and the Room is in the table, without Peers.
C38_Witness ==
    /\ out.request.handler = "Loop"
    /\ out.request.methodId = "createRoom"
    /\ out.request.roomId = 1
    /\ out.responses = <<[accepted |-> TRUE, reason |-> "", after |-> 0]>>
    /\ rooms = {1, 2}
    /\ room.peers = {}
    /\ room.closed # {}

(* C39 *)

\* The step handled a request of the Room.
RoomRequested == out'.request.handler = "Room"

\* The one response of the step is the rejection of reason.
RejectedWith(reason) ==
    /\ Len(out'.responses) = 1
    /\ ~out'.responses[1].accepted
    /\ out'.responses[1].reason = reason

\* C39: Room::HandleRequest answers every request exactly once;
\* room_createPeer for an existing peerId, or without a numeric peerId or a
\* string peerName, is rejected and leaves the peers table as it is; a
\* request for a Peer that names an unknown one is rejected with "Peer does
\* not exist"; an accepted room_createPeer adds exactly that Peer; room_close
\* is accepted once, after the Room has been closed.
C39_RoomAnswersOnce ==
    [][RoomRequested =>
          LET methodId == out'.request.methodId
              peerId   == out'.request.peerId
          IN  /\ AcceptedOnce \/ RejectedOnce
              /\ ~aborted'
              /\ methodId = "room_createPeer" =>
                     /\ (\/ peerId = 0
                         \/ peerId \in room.peers
                         \/ ~out'.request.named) => RejectedOnce
                     /\ peerId \in room.peers => RejectedWith("Peer already exists")
                     /\ RejectedOnce => room' = room
                     /\ AcceptedOnce =>
                            /\ peerId \notin room.peers
                            /\ room'.peers = room.peers \cup {peerId}
              /\ (methodId \in PeerMethodIds /\ peerId # 0
                      /\ peerId \notin room.peers) =>
                     /\ RejectedWith("Peer does not exist")
                     /\ room' = room
              /\ methodId = "room_close" =>
                     /\ AcceptedOnce
                     /\ RoomClosedInStep
                     /\ out'.responses[1].after = Len(out'.events)
                     /\ 1 \notin rooms']_vars

\* A Room of two Peers, the second created by the last request.
C39_Witness ==
    /\ out.request.handler = "Room"
    /\ out.request.methodId = "room_createPeer"
    /\ out.request.peerId = 2
    /\ Len(out.responses) = 1 /\ out.responses[1].accepted
    /\ room.peers = {1, 2}

\* A Room with a Peer and two consumer-side objects was closed by room_close
\* and has answered.
RoomCloseAnswered ==
    /\ out.request.handler = "Room"
    /\ out.request.methodId = "room_close"
    /\ Len(out.responses) = 1 /\ out.responses[1].accepted
    /\ out.responses[1].after = 3
    /\ 1 \notin rooms

(* C40 *)

\* The step closed the Room of the model.
RoomClosedByStep == 1 \in rooms /\ 1 \notin rooms'

\* The places of the Room's "close" among the notifications of the step.
RoomCloseEvents ==
    {n \in DOMAIN out'.events :
        /\ out'.events[n].id = 0
        /\ out'.events[n].event = "close"
        /\ out'.events[n].data = "Room"}

\* C40: Room::Close closes every Peer of the Room exactly once, although
\* each closure re-enters the Room through onPeerClosed; the peers table is
\* empty afterwards; exactly one "close" of the Room is emitted, after all
\* Peer closures; the listener is told of the closure once, after that.
C40_RoomCloseClosesPeersOnce ==
    [][RoomClosedByStep =>
          /\ \A peer \in room.peers :
                 Len(SelectSeq(out'.peersClosed, LAMBDA c : c.id = peer)) = 1
          /\ Len(out'.peersClosed) = Cardinality(room.peers)
          /\ room'.peers = {}
          /\ Cardinality(RoomCloseEvents) = 1
          /\ \A n \in RoomCloseEvents :
                 /\ \A k \in DOMAIN out'.peersClosed :
                        out'.peersClosed[k].after < n
                 /\ SelectSeq(out'.closed, LAMBDA c : c.id = 0) =
                        <<[id |-> 0, call |-> "onRoomClosed", after |-> n]>>
                 /\ n = Len(out'.events)
          /\ ~aborted']_vars

\* A Room of two Peers was closed: both were closed, and the Room is gone.
C40_Witness ==
    /\ 1 \notin rooms
    /\ {out.peersClosed[k].id : k \in DOMAIN out.peersClosed} = {1, 2}
    /\ room.peers = {}
    /\ SelectSeq(out.closed, LAMBDA c : c.id = 0) # <<>>

============================================================================
